---- MODULE Spec2Model ----
(***************************************************************************)
(* Model of the macemu standalone WebRTC streaming server                  *)
(* (web-streaming/server/standalone_server.cpp, ipc_protocol.h).           *)
(*                                                                         *)
(* Threads modelled:                                                        *)
(*   - the emulator's frame writer (header protocol of ipc_protocol.h),     *)
(*   - video_loop (the orchestrator thread, one pc per statement group),    *)
(*   - the signaling callbacks of the WebSocket library (process_signaling, *)
(*     onClosed), serialised by peers_mutex_,                               *)
(*   - the media-track callbacks (onOpen, onClosed), which take no lock.    *)
(***************************************************************************)
EXTENDS Integers, Sequences, FiniteSets, TLC

(***************************************************************************)
(* Bounds of the model.                                                    *)
(***************************************************************************)
\* frames the writer publishes in one run
MaxFrames == 4
\* frames packetized in one run of the packetizer specification
MaxBuilds == 2
\* signaling WebSockets (browsers)
MaxWs == 1
\* peer sessions that exist at a time (a second connect on a WebSocket
\* leaves the session it replaces in the table)
MaxPeers == 2
\* candidate messages received per peer session
MaxCands == 2

(***************************************************************************)
(* Program constants.                                                      *)
(***************************************************************************)
MTU == 1200
RTP_HEADER_LEN == 12
PAYLOAD_TYPE == 96
TS_STEP == 3000
ssrc_ == 1
NUM_SLOTS == 3
RESTART_EXIT_CODE == 75
\* the descriptor returned by accept(), the pid returned by fork()
AcceptedFd == 4
ChildPid == 1

TwoPow16 == 65536

MaxPayload == MTU - RTP_HEADER_LEN - 1

Min(a, b) == IF a < b THEN a ELSE b

(***************************************************************************)
(* Bit operations on non-negative integers, as the C operators compute     *)
(* them.                                                                   *)
(***************************************************************************)
RECURSIVE BitAnd(_, _)
BitAnd(a, b) ==
    IF a = 0 \/ b = 0 THEN 0
    ELSE (IF a % 2 = 1 /\ b % 2 = 1 THEN 1 ELSE 0) + 2 * BitAnd(a \div 2, b \div 2)

RECURSIVE BitOr(_, _)
BitOr(a, b) ==
    IF a = 0 THEN b
    ELSE IF b = 0 THEN a
    ELSE (IF a % 2 = 1 \/ b % 2 = 1 THEN 1 ELSE 0) + 2 * BitOr(a \div 2, b \div 2)

\* (x >> n) & 0xFF
ShiftByte(x, n) == BitAnd(x \div (2 ^ n), 255)

(***************************************************************************)
(* A uint32_t is kept as its two 16-bit halves << high, low >>: 2^32 does  *)
(* not fit the 32-bit integers of TLC.                                     *)
(***************************************************************************)
Word32(hi, lo) == << hi, lo >>

\* w + n modulo 2^32, for 0 <= n < 2^16
Word32Add(w, n) ==
    LET lo == w[2] + n
    IN  Word32((w[1] + lo \div TwoPow16) % TwoPow16, lo % TwoPow16)

\* (w >> n) & 0xFF for n in {0, 8, 16, 24}
Word32Byte(w, n) ==
    IF n >= 16 THEN ShiftByte(w[1], n - 16) ELSE ShiftByte(w[2], n)

(***************************************************************************)
(* WebRTCServer::build_rtp_packets: the packets of one frame, each a       *)
(* sequence of bytes (12-byte RTP header, 1-byte VP8 payload descriptor,   *)
(* payload), built from offset `offset` with sequence counter `seq`.       *)
(***************************************************************************)
\* a descriptor with the S bit on every packet
Vp8DescriptorAlwaysStart(first) == BitOr(0, 16)

\* uint8_t vp8_header = 0; if (first) vp8_header |= 0x10;
Vp8Descriptor(first) == IF first THEN BitOr(0, 16) ELSE 0

\* a packet whose payload is copied from the start of the frame
RtpPacketFromFrameStart(frame, offset, payload_size, last, first, seq, ts) ==
    << 128,
       IF last THEN BitOr(128, PAYLOAD_TYPE) ELSE PAYLOAD_TYPE,
       ShiftByte(seq, 8), BitAnd(seq, 255),
       Word32Byte(ts, 24), Word32Byte(ts, 16), Word32Byte(ts, 8), Word32Byte(ts, 0),
       ShiftByte(ssrc_, 24), ShiftByte(ssrc_, 16), ShiftByte(ssrc_, 8), BitAnd(ssrc_, 255),
       Vp8Descriptor(first) >>
    \o SubSeq(frame, 1, payload_size)

RtpPacket(frame, offset, payload_size, last, first, seq, ts) ==
    << 128,
       IF last THEN BitOr(128, PAYLOAD_TYPE) ELSE PAYLOAD_TYPE,
       ShiftByte(seq, 8), BitAnd(seq, 255),
       Word32Byte(ts, 24), Word32Byte(ts, 16), Word32Byte(ts, 8), Word32Byte(ts, 0),
       ShiftByte(ssrc_, 24), ShiftByte(ssrc_, 16), ShiftByte(ssrc_, 8), BitAnd(ssrc_, 255),
       Vp8Descriptor(first) >>
    \o SubSeq(frame, offset + 1, offset + payload_size)

\* a counter that does not wrap
NextSeqNoWrap(seq) == seq + 1

\* seq_num_++ on a uint16_t
NextSeq(seq) == (seq + 1) % TwoPow16

\* an addition that loses the carry into the upper half
NextTimestampNoCarry(ts) == Word32(ts[1], (ts[2] + TS_STEP) % TwoPow16)

\* timestamp_ += 3000 on a uint32_t
NextTimestamp(ts) == Word32Add(ts, TS_STEP)

\* a payload that fills the packet up to the MTU, the descriptor forgotten
PayloadSizeNoDescriptor(frame, offset) == Min(MTU - RTP_HEADER_LEN, Len(frame) - offset)

PayloadSize(frame, offset) == Min(MTU - RTP_HEADER_LEN - 1, Len(frame) - offset)

\* a test that no packet passes
IsLastNever(frame, offset, payload_size) == offset + payload_size > Len(frame)

IsLast(frame, offset, payload_size) == offset + payload_size >= Len(frame)

RECURSIVE PacketsFrom(_, _, _, _, _)
PacketsFrom(frame, offset, first, seq, ts) ==
    IF offset < Len(frame)
    THEN LET payload_size == PayloadSize(frame, offset)
             last == IsLast(frame, offset, payload_size)
         IN  << RtpPacket(frame, offset, payload_size, last, first, seq, ts) >>
             \o PacketsFrom(frame, offset + payload_size, FALSE, NextSeq(seq), ts)
    ELSE << >>

RECURSIVE SeqAfter(_, _)
SeqAfter(seq, n) == IF n = 0 THEN seq ELSE SeqAfter(NextSeq(seq), n - 1)

\* the value returned, and the members seq_num_ and timestamp_ afterwards
build_rtp_packets(frame, seq, ts) ==
    LET packets == PacketsFrom(frame, 0, TRUE, seq, ts)
    IN  [ packets   |-> packets,
          seq_num   |-> SeqAfter(seq, Len(packets)),
          timestamp |-> NextTimestamp(ts) ]

(***************************************************************************)
(* Reading a packet back, as a receiver parses the bytes.                  *)
(***************************************************************************)
PktMarker(p) == p[2] >= 128
PktPayloadType(p) == p[2] % 128
PktSeq(p) == p[3] * 256 + p[4]
PktTimestamp(p) == Word32(p[5] * 256 + p[6], p[7] * 256 + p[8])
PktSsrc(p) == ((p[9] * 256 + p[10]) * 256 + p[11]) * 256 + p[12]
PktStartBit(p) == BitAnd(p[13], 16) = 16
PktPayload(p) == SubSeq(p, 14, Len(p))

\* VP8Encoder::is_keyframe
is_keyframe(data) == IF data = << >> THEN FALSE ELSE BitAnd(data[1], 1) = 0

(***************************************************************************)
(* Encoded frames.  The codec is external: its output is an input of the   *)
(* model, a byte string of a chosen length whose first byte carries the    *)
(* inverse-keyframe bit.                                                   *)
(***************************************************************************)
FrameBytes(n, b0) == [i \in 1..n |-> IF i = 1 THEN b0 ELSE (i * 37 + 11) % 256]


(***************************************************************************)
(* State.                                                                  *)
(***************************************************************************)
VARIABLES
    \* MacEmuVideoBuffer header (shared memory) and the emulator's writer
    write_index,        \* atomic: slot last published
    frame_count,        \* atomic: frames published
    width, height,      \* geometry in the header
    writer_pc,          \* "idle" | "writing" | "published"
    writer_next,        \* the slot the writer is filling / has just filled
    \* control socket and emulator process
    g_listen_socket,    \* TRUE while the listening socket is open
    backlog,            \* emulators waiting in the listen queue
    g_control_socket,   \* -1 or the accepted descriptor
    g_emulator_connected,
    conn_peer,          \* the emulator's end: "none" | "open" | "closed"
    hello_count,        \* hello lines written on the current connection
    first_line,         \* history: the first line written on the current connection
    send_result,        \* history: how the last send_to_emulator on it ended
    g_emulator_pid,     \* -1 or the child's pid
    child,              \* [state: "none"|"running"|"zombie", kind, code]
    g_auto_start_emulator,
    g_restart_emulator_requested,
    g_running,
    \* locals of main
    main_pc,            \* the call main is about to make, "video_loop" while the loop runs
    shm_name,           \* the shared-memory name: "absent" | "stale" | "created"
                        \* ("created": g_video_shm_fd >= 0)
    sock_path,          \* the control-socket path: "absent" | "stale" | "bound"
    http_running,       \* HTTPServer: the server thread runs
    ws_server_,         \* WebRTCServer: the signaling server exists
    done,               \* history: the steps of the shutdown made so far
    audio,              \* the audio ring's header and what its helpers last returned:
                        \* [buffer_size, write_pos, read_pos, available, free]
    encoder,            \* the encoder main constructs: [kind, codec_, geometry,
                        \* force_keyframe_, since_key, requested, out]
    \* stop_emulator, per calling thread: video_loop or the HTTP server thread
    stop_pc,            \* thread -> "idle" | "poll" | "wait"
    polls,              \* thread -> the loop counter i of the poll loop
    sigs,               \* history: thread -> the signals this call has sent
    \* start_emulator, per calling thread
    start_pc,           \* thread -> "idle" | "fork"
    orphans,            \* running children g_emulator_pid no longer names
    \* HTTPServer::run, the server thread
    http_pc,            \* "poll": in its loop | "recv": in handle_client, waiting
                        \* for the request of the client it accepted
    \* history of the supervisor
    respawn,            \* what the exit-code check just made did: whether it called
                        \* start_emulator, whether that forked, the status of the child replaced
    \* video_loop
    loop_pc,
    last_frame_count,
    exit_code,          \* local of the supervisor check
    idx,                \* local: slot taken from write_index (NUM_SLOTS: none)
    encoded,            \* local: the encoder's output for the frame read
    \* WebRTCServer
    peers_mutex_,       \* "free" | "video"
    peers_,             \* id -> session
    ws_to_peer_id_,     \* ws -> id
    peer_count_,
    seq_num_,
    timestamp_,
    ws_open,            \* WebSockets whose client is connected
    \* send_frame
    packets,            \* local: the packets of the frame being fanned out
    fan_todo,           \* ids still to visit in the loop over peers_
    fan_peer,           \* the peer whose inner packet loop runs (0: none)
    fan_k,              \* the next packet to send to fan_peer
    sends,              \* history of this fan-out: id -> the check's result and the send calls
    \* history
    encoded_ever,       \* frame_count values encoded so far
    encoded_since_reset,\* the same, since last_frame_count was last reset
    reencoded,          \* a value of encoded_ever was encoded again
    reencoded_since_reset,
    builds,             \* frames packetized so far
    last_ts,            \* timestamp carried by the frame packetized last
    last_first_seq,     \* sequence number of its first packet
    last_npackets,      \* the number of its packets
    prev_ts,            \* timestamp of the frame packetized before it
    prev_last_seq,      \* sequence number of that frame's last packet (-1: none)
    between,            \* what last happened since a frame was packetized
    last_cand           \* how the last candidate message was handled

shmVars  == << write_index, frame_count, width, height, writer_pc, writer_next >>
connVars == << g_listen_socket, backlog, g_control_socket, g_emulator_connected,
               conn_peer, hello_count, first_line, send_result >>
startVars == << start_pc, orphans, http_pc >>
stopVars == << stop_pc, polls, sigs, startVars >>
supHist  == << respawn >>
mainVars == << main_pc, shm_name, sock_path, http_running, ws_server_, done, encoder, audio >>
procVars == << g_emulator_pid, child, g_auto_start_emulator,
               g_restart_emulator_requested, g_running, mainVars, stopVars, supHist >>
loopVars == << loop_pc, last_frame_count, exit_code, idx, encoded >>
peerVars == << peers_mutex_, peers_, ws_to_peer_id_, peer_count_, ws_open >>
rtpVars  == << seq_num_, timestamp_ >>
fanVars  == << packets, fan_todo, fan_peer, fan_k, sends >>
encHist  == << encoded_ever, encoded_since_reset, reencoded, reencoded_since_reset >>
rtpHist  == << builds, last_ts, last_first_seq, last_npackets, prev_ts, prev_last_seq >>
gapHist  == << between >>
sigHist  == << last_cand >>

vars == << shmVars, connVars, procVars, loopVars, peerVars, rtpVars, fanVars,
           encHist, rtpHist, sigHist, gapHist >>

WebSockets == 1..MaxWs
\* the ids rand() names sessions with
PeerIds == 1..MaxPeers
Slots == 0..(NUM_SLOTS - 1)
NoSlot == NUM_SLOTS
NoTimestamp == << -1, -1 >>
NoChild == [state |-> "none", kind |-> "none", code |-> 0]
\* nothing happened between the frames packetized; `closed`: the second
\* of the two frames has been packetized
NoGap == [kind |-> "none", closed |-> TRUE]

NoCand == [kind |-> "none", had_remote |-> FALSE, outcome |-> "none"]

\* geometries the emulator publishes: 0x0 is "not yet published"
Geometries == { <<0, 0>>, <<800, 600>> }

\* lengths of the encoder's output in the system specifications: a failed
\* encode (empty), a one-packet frame, a two-packet frame
EncodedFrames == { << >>, FrameBytes(2, 0), FrameBytes(MaxPayload + 1, 1) }

(***************************************************************************)
(* create_video_shm, create_control_socket, the constructors and main up   *)
(* to the call of video_loop.                                              *)
(***************************************************************************)
InitShm ==
    /\ write_index = 0
    /\ frame_count = 0
    /\ width = 800
    /\ height = 600
    /\ writer_pc = "idle"
    /\ writer_next = NoSlot

InitConn ==
    /\ g_listen_socket = TRUE
    /\ backlog = 0
    /\ g_control_socket = -1
    /\ g_emulator_connected = FALSE
    /\ conn_peer = "none"
    /\ hello_count = 0
    /\ first_line = "none"
    /\ send_result = "none"

\* main has created the shared memory and the control socket, started the
\* HTTP server and the signaling server, and calls video_loop
MainInVideoLoop ==
    /\ main_pc = "video_loop"
    /\ shm_name = "created"
    /\ sock_path = "bound"
    /\ http_running = TRUE
    /\ ws_server_ = TRUE
    /\ done = << >>

\* #define MACEMU_AUDIO_BUFFER_SIZE
MACEMU_AUDIO_BUFFER_SIZE == 65536

\* the audio ring with positions wp and rp, its helpers not yet called
AudioRing(wp, rp) ==
    [buffer_size |-> MACEMU_AUDIO_BUFFER_SIZE, write_pos |-> wp, read_pos |-> rp,
     available |-> -1, free |-> -1]

NoAudio == AudioRing(0, 0)

\* VP8Encoder() = default: no codec yet; H264Encoder: force_keyframe_ = true.
\* VP8Encoder has no force flag.  since_key counts the frames the codec
\* encoded since its last keyframe; requested (history): a keyframe request
\* is outstanding; out (history): what the last encode call emitted; frame,
\* reinit (history): the geometry of the frame of the last encode call and
\* whether that call called init; call: the parity of the encode calls made
NewEncoder(kind) ==
    [kind |-> kind, codec_ |-> FALSE, geometry |-> << 0, 0 >>,
     force_keyframe_ |-> (kind = "H264"),
     since_key |-> 0, requested |-> FALSE, out |-> "none",
     frame |-> << 0, 0 >>, reinit |-> FALSE, call |-> 0]

\* main: auto-start spawns a child when an emulator binary is found
\* the threads that call stop_emulator
StopThreads == { "loop", "http" }

NoStatus == [kind |-> "none", code |-> 0]
NoRespawn == [called |-> FALSE, forked |-> FALSE, replaced |-> NoStatus]

InitProc ==
    /\ g_auto_start_emulator \in BOOLEAN
    /\ \/ /\ g_auto_start_emulator
          /\ g_emulator_pid = ChildPid
          /\ child = [state |-> "running", kind |-> "none", code |-> 0]
       \/ /\ g_emulator_pid = -1
          /\ child = NoChild
    /\ g_restart_emulator_requested = FALSE
    /\ g_running = TRUE
    /\ MainInVideoLoop
    /\ encoder = NewEncoder("VP8")
    /\ audio = NoAudio
    /\ stop_pc = [t \in StopThreads |-> "idle"]
    /\ polls = [t \in StopThreads |-> 0]
    /\ sigs = [t \in StopThreads |-> << >>]
    /\ start_pc = [t \in StopThreads |-> "idle"]
    /\ orphans = 0
    /\ http_pc = "poll"
    /\ respawn = NoRespawn

InitLoop ==
    /\ loop_pc = "top"
    /\ last_frame_count = 0
    /\ exit_code = 0
    /\ idx = NoSlot
    /\ encoded = << >>

\* main has not called video_loop yet
InitLoopNotCalled ==
    /\ loop_pc = "not_called"
    /\ last_frame_count = 0
    /\ exit_code = 0
    /\ idx = NoSlot
    /\ encoded = << >>

InitPeers ==
    /\ peers_mutex_ = "free"
    /\ peers_ = << >>
    /\ ws_to_peer_id_ = << >>
    /\ peer_count_ = 0
    /\ ws_open = {}

InitFan ==
    /\ packets = << >>
    /\ fan_todo = {}
    /\ fan_peer = 0
    /\ fan_k = 0
    /\ sends = << >>

InitHist ==
    /\ encoded_ever = {}
    /\ encoded_since_reset = {}
    /\ reencoded = FALSE
    /\ reencoded_since_reset = FALSE
    /\ builds = 0
    /\ last_ts = NoTimestamp
    /\ last_first_seq = -1
    /\ last_npackets = 0
    /\ prev_ts = NoTimestamp
    /\ prev_last_seq = -1
    /\ last_cand = NoCand
    /\ between = NoGap

\* uint16_t seq_num_ = 0; uint32_t timestamp_ = 0;
InitRtpCounters ==
    /\ seq_num_ = 0
    /\ timestamp_ = Word32(0, 0)

InitRest ==
    InitShm /\ InitConn /\ InitProc /\ InitLoop /\ InitPeers /\ InitFan /\ InitHist

Init == InitRest /\ InitRtpCounters


(***************************************************************************)
(* The emulator's frame writer, following the protocol of ipc_protocol.h:  *)
(* next = (write_index + 1) % 3; write the frame into frames[next]; store  *)
(* write_index = next; count the frame.  It runs while an emulator is      *)
(* attached (it learnt the region's name from the hello line).             *)
(***************************************************************************)
NextSlot(i) == (i + 1) % NUM_SLOTS

WriterBegin ==
    /\ conn_peer = "open"
    /\ writer_pc = "idle"
    /\ frame_count < MaxFrames
    /\ writer_next' = NextSlot(write_index)
    /\ writer_pc' = "writing"
    /\ \E g \in Geometries : width' = g[1] /\ height' = g[2]
    /\ UNCHANGED << write_index, frame_count >>
    /\ UNCHANGED << connVars, procVars, loopVars, peerVars, rtpVars, fanVars,
                    encHist, rtpHist, sigHist, gapHist >>

WriterPublish ==
    /\ conn_peer = "open"
    /\ writer_pc = "writing"
    /\ write_index' = writer_next
    /\ writer_pc' = "published"
    /\ UNCHANGED << frame_count, width, height, writer_next >>
    /\ UNCHANGED << connVars, procVars, loopVars, peerVars, rtpVars, fanVars,
                    encHist, rtpHist, sigHist, gapHist >>

WriterCount ==
    /\ conn_peer = "open"
    /\ writer_pc = "published"
    /\ frame_count' = frame_count + 1
    /\ writer_pc' = "idle"
    /\ writer_next' = NoSlot
    /\ UNCHANGED << write_index, width, height >>
    /\ UNCHANGED << connVars, procVars, loopVars, peerVars, rtpVars, fanVars,
                    encHist, rtpHist, sigHist, gapHist >>

(***************************************************************************)
(* The environment of the control socket and of the child process.         *)
(***************************************************************************)
LISTEN_BACKLOG == 1

\* an emulator connects to the socket path; it waits in the listen queue
EmulatorConnects ==
    /\ g_listen_socket
    /\ backlog < LISTEN_BACKLOG
    /\ backlog' = backlog + 1
    /\ UNCHANGED << g_listen_socket, g_control_socket, g_emulator_connected,
                    conn_peer, hello_count, first_line, send_result >>
    /\ UNCHANGED << shmVars, procVars, loopVars, peerVars, rtpVars, fanVars,
                    encHist, rtpHist, sigHist, gapHist >>

\* the attached emulator closes its end (it exits, or shuts the socket)
EmulatorCloses ==
    /\ conn_peer = "open"
    /\ conn_peer' = "closed"
    /\ UNCHANGED << g_listen_socket, backlog, g_control_socket,
                    g_emulator_connected, hello_count, first_line, send_result >>
    /\ UNCHANGED << shmVars, procVars, loopVars, peerVars, rtpVars, fanVars,
                    encHist, rtpHist, sigHist, gapHist >>

ExitStatuses ==
    { [kind |-> "exited", code |-> 0], [kind |-> "exited", code |-> 1],
      [kind |-> "exited", code |-> RESTART_EXIT_CODE],
      [kind |-> "signaled", code |-> 0] }

\* the child terminates; it stays a zombie until it is waited for
ChildExits ==
    /\ child.state = "running"
    /\ \E st \in ExitStatuses :
          child' = [state |-> "zombie", kind |-> st.kind, code |-> st.code]
    /\ UNCHANGED << g_emulator_pid, g_auto_start_emulator,
                    g_restart_emulator_requested, g_running, mainVars, stopVars, supHist >>
    /\ UNCHANGED << shmVars, connVars, loopVars, peerVars, rtpVars, fanVars,
                    encHist, rtpHist, sigHist, gapHist >>

\* the HTTP server thread handles one request at a time
HttpIdle == stop_pc["http"] = "idle" /\ start_pc["http"] = "idle"

\* HTTPServer::handle_client, POST /api/emulator/restart
ApiRestart ==
    /\ HttpIdle
    /\ g_restart_emulator_requested' = TRUE
    /\ UNCHANGED << g_emulator_pid, child, g_auto_start_emulator, g_running, mainVars >>
    /\ UNCHANGED << stopVars, respawn >>
    /\ UNCHANGED << shmVars, connVars, loopVars, peerVars, rtpVars, fanVars,
                    encHist, rtpHist, sigHist, gapHist >>

(***************************************************************************)
(* Control-socket and supervisor functions, as the effect of one call.     *)
(***************************************************************************)
\* a close that would also close the listening socket
close_connection_and_listener ==
    /\ g_control_socket' = -1
    /\ g_emulator_connected' = FALSE
    /\ conn_peer' = "none"
    /\ hello_count' = 0
    /\ first_line' = "none"
    /\ send_result' = "none"
    /\ g_listen_socket' = FALSE
    /\ backlog' = 0

\* a close that gives up the descriptor and leaves the flag as it is
close_emulator_connection_keeping_flag ==
    /\ g_control_socket' = -1
    /\ conn_peer' = "none"
    /\ hello_count' = 0
    /\ first_line' = "none"
    /\ send_result' = "none"
    /\ UNCHANGED << g_listen_socket, backlog, g_emulator_connected >>

close_emulator_connection ==
    /\ g_control_socket' = -1
    /\ g_emulator_connected' = FALSE
    /\ conn_peer' = "none"
    /\ hello_count' = 0
    /\ first_line' = "none"
    /\ send_result' = "none"
    /\ UNCHANGED << g_listen_socket, backlog >>

\* accept() on the non-blocking listening socket; the hello line is written
\* at once; the emulator accepted maps the region and starts its writer
accept_emulator_connection ==
    IF g_listen_socket /\ g_control_socket < 0 /\ backlog > 0
    THEN /\ g_control_socket' = AcceptedFd
         /\ g_emulator_connected' = TRUE
         /\ hello_count' = 1
         /\ first_line' = "hello"
         /\ backlog' = backlog - 1
         /\ conn_peer' = "open"
         /\ writer_pc' = "idle"
         /\ writer_next' = NoSlot
         /\ UNCHANGED << g_listen_socket, send_result >>
         /\ UNCHANGED << write_index, frame_count, width, height >>
    ELSE UNCHANGED << connVars, shmVars >>

(***************************************************************************)
(* The control connection statement by statement, with its other writers.  *)
(* accept_emulator_connection stores the descriptor and sets               *)
(* g_emulator_connected before it builds and sends the hello line;         *)
(* send_to_emulator runs on the HTTP server thread (/api/restart) and on   *)
(* the data-channel callbacks (handle_input).  g_control_socket is a plain *)
(* int all three read.                                                     *)
(***************************************************************************)
\* send(): the whole line, a part of it, or nothing; nothing can be
\* written once the emulator has closed its end
SendOutcomes == { "ok", "short", "failed" }

\* send_to_emulator(msg), msg a line of kind `kind`: it returns whether the
\* whole line was written and changes nothing else
send_to_emulator(kind, outcome) ==
    /\ IF g_control_socket < 0
       THEN UNCHANGED << first_line, send_result >>
       ELSE /\ send_result' = outcome
            /\ first_line' = IF first_line = "none" /\ outcome # "failed"
                              THEN kind ELSE first_line
    /\ UNCHANGED << g_listen_socket, backlog, g_control_socket,
                    g_emulator_connected, conn_peer, hello_count >>

\* HTTPServer::handle_client, POST /api/restart
ApiRestartMessage ==
    /\ stop_pc["http"] = "idle"
    /\ \E outcome \in SendOutcomes :
          /\ conn_peer = "closed" => outcome = "failed"
          /\ send_to_emulator("restart", outcome)
    /\ UNCHANGED << shmVars, procVars, loopVars, peerVars, rtpVars, fanVars,
                    encHist, rtpHist, sigHist, gapHist >>

\* a message arrives on the data channel of a session whose remote
\* description is set: handle_input
HandleInput ==
    /\ \E id \in DOMAIN peers_ : peers_[id].has_remote_description
    /\ g_control_socket >= 0
    /\ \E outcome \in SendOutcomes :
          /\ conn_peer = "closed" => outcome = "failed"
          /\ send_to_emulator("input", outcome)
    /\ UNCHANGED << shmVars, procVars, loopVars, peerVars, rtpVars, fanVars,
                    encHist, rtpHist, sigHist, gapHist >>

\* if (!g_emulator_connected) accept_emulator_connection(), up to
\* g_control_socket = fd; g_emulator_connected = true;
LoopAcceptTake ==
    /\ loop_pc = "accept"
    /\ IF ~g_emulator_connected /\ g_listen_socket /\ g_control_socket < 0 /\ backlog > 0
       THEN /\ g_control_socket' = AcceptedFd
            /\ g_emulator_connected' = TRUE
            /\ backlog' = backlog - 1
            /\ conn_peer' = "open"
            /\ writer_pc' = "idle"
            /\ writer_next' = NoSlot
            /\ loop_pc' = "hello"
            /\ UNCHANGED << g_listen_socket, hello_count, first_line, send_result >>
            /\ UNCHANGED << write_index, frame_count, width, height >>
       ELSE /\ loop_pc' = "peek"
            /\ UNCHANGED << connVars, shmVars >>
    /\ UNCHANGED << last_frame_count, exit_code, idx, encoded >>
    /\ UNCHANGED << procVars, peerVars, rtpVars, fanVars, encHist, rtpHist, sigHist, gapHist >>

\* send(g_control_socket, handshake...): the hello line
LoopAcceptHello ==
    /\ loop_pc = "hello"
    /\ hello_count' = hello_count + 1
    /\ first_line' = IF first_line = "none" THEN "hello" ELSE first_line
    /\ loop_pc' = "peek"
    /\ UNCHANGED << g_listen_socket, backlog, g_control_socket,
                    g_emulator_connected, conn_peer, send_result >>
    /\ UNCHANGED << last_frame_count, exit_code, idx, encoded >>
    /\ UNCHANGED << shmVars, procVars, peerVars, rtpVars, fanVars,
                    encHist, rtpHist, sigHist, gapHist >>

\* the value check_emulator_status returns
CheckStatusResult ==
    IF g_emulator_pid <= 0 THEN -1
    ELSE IF child.state = "zombie"
         THEN (IF child.kind = "exited" /\ child.code >= 0 THEN child.code ELSE -1)
    ELSE IF child.state = "running" THEN 0
    ELSE -1

check_emulator_status ==
    /\ exit_code' = CheckStatusResult
    /\ IF g_emulator_pid > 0 /\ child.state = "zombie"
       THEN /\ child' = NoChild
            /\ g_emulator_pid' = -1
            /\ close_emulator_connection
       ELSE UNCHANGED << child, g_emulator_pid, connVars >>

\* what start_emulator does to the process: keep a running child, or reap
\* a terminated one and fork; `ok`: an executable is found and fork succeeds
ForkOrKeep(ok) ==
    IF g_emulator_pid > 0 /\ child.state = "running"
    THEN UNCHANGED << g_emulator_pid, child >>
    ELSE IF ok
         THEN /\ g_emulator_pid' = ChildPid
              /\ child' = [state |-> "running", kind |-> "none", code |-> 0]
         ELSE /\ g_emulator_pid' = -1
              /\ child' = IF g_emulator_pid > 0 THEN NoChild ELSE child

\* a start_emulator that would also clear the session table
start_emulator_dropping_sessions(ok) ==
    /\ ForkOrKeep(ok)
    /\ peers_' = << >>
    /\ ws_to_peer_id_' = << >>
    /\ peer_count_' = 0
    /\ UNCHANGED << peers_mutex_, ws_open >>

\* start_emulator: it touches nothing of WebRTCServer
start_emulator(ok) ==
    /\ ForkOrKeep(ok)
    /\ UNCHANGED peerVars

\* the exit status a terminated child that was not waited for would report
StatusOf(c) ==
    IF c.state = "zombie" THEN [kind |-> c.kind, code |-> c.code] ELSE NoStatus

\* history: the child start_emulator replaces when it forks; `reaped` is
\* the status the caller's check_emulator_status has collected, if any
Replaced(reaped) ==
    IF child.state = "zombie" THEN StatusOf(child) ELSE reaped

\* stop_emulator as the effect of one call made while no other thread
\* touches the child: SIGTERM, up to 30 polls, SIGKILL, blocking wait
stop_emulator ==
    IF g_emulator_pid <= 0
    THEN UNCHANGED << g_emulator_pid, child >>
    ELSE /\ g_emulator_pid' = -1
         /\ child' = NoChild

(***************************************************************************)
(* stop_emulator statement by statement, called by thread t: video_loop    *)
(* for a restart request, the HTTP server thread for /api/emulator/stop.   *)
(* g_emulator_pid is a plain pid_t both threads read and write; every      *)
(* statement reads it anew.                                                *)
(***************************************************************************)
\* for (int i = 0; i < 30; i++)
STOP_POLLS == 30

\* the poll loop ends after one poll
PollsExhaustedAfterOne(i) == i >= 1

\* the loop condition i < 30 is false
PollsExhausted(i) == i >= STOP_POLLS

\* waitpid(g_emulator_pid, &status, WNOHANG): 0 while the child runs, its
\* pid when it has terminated, -1 when there is no child to wait for
WaitNoHang ==
    IF g_emulator_pid > 0 /\ child.state = "running" THEN 0
    ELSE IF g_emulator_pid > 0 /\ child.state = "zombie" THEN g_emulator_pid
    ELSE -1

\* return of stop_emulator to its caller
StopReturns(t) ==
    /\ stop_pc' = [stop_pc EXCEPT ![t] = "idle"]
    /\ polls' = [polls EXCEPT ![t] = 0]
    /\ sigs' = [sigs EXCEPT ![t] = << >>]
    /\ loop_pc' = IF t = "loop" THEN "start" ELSE loop_pc

StopFrame ==
    /\ UNCHANGED << g_auto_start_emulator, g_restart_emulator_requested, g_running, mainVars,
                    startVars, supHist >>
    /\ UNCHANGED << last_frame_count, exit_code, idx, encoded >>
    /\ UNCHANGED << shmVars, connVars, peerVars, rtpVars, fanVars,
                    encHist, rtpHist, sigHist, gapHist >>

\* if (g_emulator_pid <= 0) return; kill(g_emulator_pid, SIGTERM);
\* the HTTP handler calls stop_emulator only when g_emulator_pid > 0
StopBegin(t) ==
    /\ stop_pc[t] = "idle"
    /\ IF t = "loop" THEN loop_pc = "stop" ELSE g_emulator_pid > 0
    /\ IF g_emulator_pid <= 0
       THEN StopReturns(t)
       ELSE /\ stop_pc' = [stop_pc EXCEPT ![t] = "poll"]
            /\ polls' = [polls EXCEPT ![t] = 0]
            /\ sigs' = [sigs EXCEPT ![t] = << "TERM" >>]
            /\ UNCHANGED loop_pc
    /\ UNCHANGED << g_emulator_pid, child >>
    /\ StopFrame

\* one iteration of the poll loop
StopPoll(t) ==
    /\ stop_pc[t] = "poll"
    /\ ~PollsExhausted(polls[t])
    /\ IF WaitNoHang # 0
       THEN /\ g_emulator_pid' = -1
            /\ child' = IF child.state = "zombie" THEN NoChild ELSE child
            /\ StopReturns(t)
       ELSE /\ polls' = [polls EXCEPT ![t] = @ + 1]
            /\ UNCHANGED << g_emulator_pid, child, stop_pc, sigs, loop_pc >>
    /\ StopFrame

\* kill(g_emulator_pid, SIGKILL) after the loop
StopKill(t) ==
    /\ stop_pc[t] = "poll"
    /\ PollsExhausted(polls[t])
    /\ sigs' = [sigs EXCEPT ![t] = Append(@, "KILL")]
    /\ child' = IF g_emulator_pid > 0 /\ child.state = "running"
                THEN [state |-> "zombie", kind |-> "signaled", code |-> 0]
                ELSE child
    /\ stop_pc' = [stop_pc EXCEPT ![t] = "wait"]
    /\ UNCHANGED << g_emulator_pid, polls, loop_pc >>
    /\ StopFrame

\* waitpid(g_emulator_pid, nullptr, 0); g_emulator_pid = -1;
\* the wait blocks while the child it names runs
StopWait(t) ==
    /\ stop_pc[t] = "wait"
    /\ ~(g_emulator_pid > 0 /\ child.state = "running")
    /\ g_emulator_pid' = -1
    /\ child' = IF child.state = "zombie" THEN NoChild ELSE child
    /\ StopReturns(t)
    /\ StopFrame

stop_emulator_steps(t) == StopBegin(t) \/ StopPoll(t) \/ StopKill(t) \/ StopWait(t)

\* HTTPServer::handle_client, POST /api/emulator/stop
ApiStop == stop_emulator_steps("http")

\* POST /api/emulator/stop with stop_emulator as one step
ApiStopCall ==
    /\ HttpIdle
    /\ g_emulator_pid > 0
    /\ stop_emulator
    /\ UNCHANGED << g_auto_start_emulator, g_restart_emulator_requested, g_running, mainVars,
                    stopVars, supHist >>
    /\ UNCHANGED << shmVars, connVars, loopVars, peerVars, rtpVars, fanVars,
                    encHist, rtpHist, sigHist, gapHist >>

\* HTTPServer::handle_client, POST /api/emulator/start
ApiStart ==
    /\ HttpIdle
    /\ g_emulator_pid <= 0
    /\ \E ok \in BOOLEAN : start_emulator(ok)
    /\ UNCHANGED << g_auto_start_emulator, g_restart_emulator_requested, g_running, mainVars >>
    /\ UNCHANGED << stopVars, respawn >>
    /\ UNCHANGED << shmVars, connVars, loopVars, rtpVars, fanVars,
                    encHist, rtpHist, sigHist, gapHist >>

(***************************************************************************)
(* video_loop, one action per statement group.                             *)
(***************************************************************************)
\* history: `kind` happened after a frame was packetized
Happened(kind) ==
    between' = IF builds > 0 THEN [kind |-> kind, closed |-> FALSE] ELSE between

\* while (g_running); the 500 ms supervisor timer has elapsed or not
LoopTop ==
    /\ loop_pc = "top"
    /\ IF ~g_running
       THEN loop_pc' = "exited"
       ELSE \E elapsed \in BOOLEAN :
               loop_pc' = IF elapsed THEN "emu_check" ELSE "accept"
    /\ UNCHANGED << last_frame_count, exit_code, idx, encoded >>
    /\ UNCHANGED << shmVars, connVars, procVars, peerVars, rtpVars, fanVars,
                    encHist, rtpHist, sigHist, gapHist >>

\* int exit_code = check_emulator_status();
LoopCheckStatus ==
    /\ loop_pc = "emu_check"
    /\ check_emulator_status
    /\ loop_pc' = "auto_restart"
    /\ UNCHANGED << last_frame_count, idx, encoded >>
    /\ UNCHANGED << g_auto_start_emulator, g_restart_emulator_requested, g_running, mainVars,
                    stopVars, supHist >>
    /\ UNCHANGED << shmVars, peerVars, rtpVars, fanVars, encHist, rtpHist, sigHist, gapHist >>

\* if (exit_code > 0 && g_auto_start_emulator) if (exit_code == 75)
ShouldRespawn(code, auto) == code > 0 /\ auto /\ code = RESTART_EXIT_CODE

\* the exit-code check; after its 500 ms sleep, start_emulator();
LoopAutoRestart ==
    /\ loop_pc = "auto_restart"
    /\ IF ShouldRespawn(exit_code, g_auto_start_emulator)
       THEN /\ \E ok \in BOOLEAN : start_emulator(ok)
            /\ respawn' =
                  IF child' # child /\ child'.state = "running"
                  THEN [called |-> TRUE, forked |-> TRUE,
                        replaced |-> Replaced([kind |-> "exited", code |-> exit_code])]
                  ELSE [called |-> TRUE, forked |-> FALSE, replaced |-> NoStatus]
            /\ Happened("restarted")
       ELSE /\ respawn' = NoRespawn
            /\ UNCHANGED << g_emulator_pid, child, between, peerVars >>
    /\ loop_pc' = "restart_req"
    /\ exit_code' = 0
    /\ UNCHANGED << last_frame_count, idx, encoded >>
    /\ UNCHANGED << g_auto_start_emulator, g_restart_emulator_requested, g_running, mainVars,
                    stopVars >>
    /\ UNCHANGED << shmVars, connVars, rtpVars, fanVars, encHist, rtpHist, sigHist >>

\* a test that clears the flag and goes on without restarting
AfterRequestTestIgnoring(requested) == "accept"

\* where video_loop goes after the exchange: into the restart, or on
AfterRequestTest(requested) == IF requested THEN "stop" ELSE "accept"

\* if (g_restart_emulator_requested.exchange(false))
LoopRestartRequested ==
    /\ loop_pc = "restart_req"
    /\ g_restart_emulator_requested' = FALSE
    /\ respawn' = NoRespawn
    /\ loop_pc' = AfterRequestTest(g_restart_emulator_requested)
    /\ UNCHANGED << last_frame_count, exit_code, idx, encoded >>
    /\ UNCHANGED << g_emulator_pid, child, g_auto_start_emulator, g_running, mainVars,
                    stopVars >>
    /\ UNCHANGED << shmVars, connVars, peerVars, rtpVars, fanVars,
                    encHist, rtpHist, sigHist, gapHist >>

\* stop_emulator() of the restart request, as one step
LoopStop ==
    /\ loop_pc = "stop"
    /\ stop_pc["loop"] = "idle"
    /\ stop_emulator
    /\ loop_pc' = "start"
    /\ UNCHANGED << last_frame_count, exit_code, idx, encoded >>
    /\ UNCHANGED << g_auto_start_emulator, g_restart_emulator_requested, g_running, mainVars,
                    stopVars, supHist >>
    /\ UNCHANGED << shmVars, connVars, peerVars, rtpVars, fanVars,
                    encHist, rtpHist, sigHist, gapHist >>

\* stop_emulator() of the restart request, statement by statement
LoopStopSteps == stop_emulator_steps("loop")

\* after the 500 ms sleep, start_emulator();
LoopStart ==
    /\ loop_pc = "start"
    /\ \E ok \in BOOLEAN : start_emulator(ok)
    /\ Happened("restarted")
    /\ loop_pc' = "accept"
    /\ UNCHANGED << last_frame_count, exit_code, idx, encoded >>
    /\ UNCHANGED << g_auto_start_emulator, g_restart_emulator_requested, g_running, mainVars,
                    stopVars, respawn >>
    /\ UNCHANGED << shmVars, connVars, rtpVars, fanVars, encHist, rtpHist, sigHist >>

\* if (!g_emulator_connected) accept_emulator_connection();
LoopAccept ==
    /\ loop_pc = "accept"
    /\ IF ~g_emulator_connected
       THEN accept_emulator_connection
       ELSE UNCHANGED << connVars, shmVars >>
    /\ loop_pc' = "peek"
    /\ UNCHANGED << last_frame_count, exit_code, idx, encoded >>
    /\ UNCHANGED << procVars, peerVars, rtpVars, fanVars, encHist, rtpHist, sigHist, gapHist >>

\* a peek that never reports the closure
PeekMissesClosure == FALSE

\* recv(MSG_PEEK | MSG_DONTWAIT) returns 0 once the emulator closed its end
PeekSeesClosure == g_emulator_connected /\ g_control_socket >= 0 /\ conn_peer = "closed"

\* the value last_frame_count takes when the closure is seen
ResetFrameTracking == 0

LoopPeek ==
    /\ loop_pc = "peek"
    /\ IF PeekSeesClosure
       THEN /\ close_emulator_connection
            /\ last_frame_count' = ResetFrameTracking
            /\ encoded_since_reset' = {}
       ELSE UNCHANGED << connVars, last_frame_count, encoded_since_reset >>
    /\ loop_pc' = "count"
    /\ UNCHANGED << exit_code, idx, encoded >>
    /\ UNCHANGED << encoded_ever, reencoded, reencoded_since_reset >>
    /\ UNCHANGED << shmVars, procVars, peerVars, rtpVars, fanVars, rtpHist, sigHist, gapHist >>

\* a reader that remembers the value before the one it loaded
RememberPrevious(current_count) == current_count - 1

\* the value remembered in last_frame_count for the value just loaded
Remember(current_count) == current_count

\* current_count = frame_count; unchanged: sleep 5 ms and continue
LoopCount ==
    /\ loop_pc = "count"
    /\ IF frame_count = last_frame_count
       THEN /\ loop_pc' = "top"
            /\ UNCHANGED last_frame_count
       ELSE /\ loop_pc' = "index"
            /\ last_frame_count' = Remember(frame_count)
    /\ UNCHANGED << exit_code, idx, encoded >>
    /\ UNCHANGED << shmVars, connVars, procVars, peerVars, rtpVars, fanVars,
                    encHist, rtpHist, sigHist, gapHist >>

\* idx = write_index; geometry 0 x 0: continue
LoopIndex ==
    /\ loop_pc = "index"
    /\ IF width = 0 \/ height = 0
       THEN /\ loop_pc' = "top"
            /\ idx' = NoSlot
       ELSE /\ loop_pc' = "encode"
            /\ idx' = write_index
    /\ UNCHANGED << last_frame_count, exit_code, encoded >>
    /\ UNCHANGED << shmVars, connVars, procVars, peerVars, rtpVars, fanVars,
                    encHist, rtpHist, sigHist, gapHist >>

\* encoder.encode(frames[idx], ...) starts reading the slot
LoopEncodeBegin ==
    /\ loop_pc = "encode"
    /\ loop_pc' = "encoding"
    /\ encoded_ever' = encoded_ever \cup {last_frame_count}
    /\ encoded_since_reset' = encoded_since_reset \cup {last_frame_count}
    /\ reencoded' = (reencoded \/ last_frame_count \in encoded_ever)
    /\ reencoded_since_reset' =
          (reencoded_since_reset \/ last_frame_count \in encoded_since_reset)
    /\ UNCHANGED << last_frame_count, exit_code, idx, encoded >>
    /\ UNCHANGED << shmVars, connVars, procVars, peerVars, rtpVars, fanVars,
                    rtpHist, sigHist, gapHist >>

\* encode returns: an empty bitstream on failure, else the frame
LoopEncodeEnd ==
    /\ loop_pc = "encoding"
    /\ \E f \in EncodedFrames : encoded' = f
    /\ loop_pc' = "send"
    /\ UNCHANGED << last_frame_count, exit_code, idx >>
    /\ UNCHANGED << shmVars, connVars, procVars, peerVars, rtpVars, fanVars,
                    encHist, rtpHist, sigHist, gapHist >>

\* the stats line (every 3 s), end of the tick
LoopStats ==
    /\ loop_pc = "stats"
    /\ loop_pc' = "top"
    /\ idx' = NoSlot
    /\ encoded' = << >>
    /\ UNCHANGED << last_frame_count, exit_code >>
    /\ UNCHANGED << shmVars, connVars, procVars, peerVars, rtpVars, fanVars,
                    encHist, rtpHist, sigHist, gapHist >>


(***************************************************************************)
(* WebRTCServer::send_frame, called by video_loop with the encoder's       *)
(* output.  build_rtp_packets runs under peers_mutex_; the loop over       *)
(* peers_ visits the sessions in key order, one action per peer examined   *)
(* and one per packet sent.                                                *)
(***************************************************************************)
\* map insert and erase
Put(f, k, v) == [x \in (DOMAIN f) \cup {k} |-> IF x = k THEN v ELSE f[x]]
Drop(f, k) == [x \in (DOMAIN f) \ {k} |-> f[x]]

Lowest(S) == CHOOSE x \in S : \A y \in S : x <= y

\* if (!encoded.empty()) send_frame(...): nothing to send, or
\* send_frame returns at `data.empty() || peer_count_ == 0`
LoopSendSkip ==
    /\ loop_pc = "send"
    /\ (encoded = << >> \/ peer_count_ = 0)
    /\ loop_pc' = "stats"
    /\ IF encoded # << >> THEN Happened("skipped") ELSE UNCHANGED between
    /\ UNCHANGED << last_frame_count, exit_code, idx, encoded >>
    /\ UNCHANGED << shmVars, connVars, procVars, peerVars, rtpVars, fanVars,
                    encHist, rtpHist, sigHist >>

\* auto packets = build_rtp_packets(data, is_keyframe), and what is
\* remembered of the frame
Packetize(frame) ==
    LET r == build_rtp_packets(frame, seq_num_, timestamp_)
    IN  /\ packets' = r.packets
        /\ seq_num_' = r.seq_num
        /\ timestamp_' = r.timestamp
        /\ builds' = builds + 1
        /\ last_ts' = timestamp_
        /\ last_first_seq' = seq_num_
        /\ last_npackets' = Len(r.packets)
        /\ prev_ts' = last_ts
        /\ prev_last_seq' = IF last_npackets = 0 THEN prev_last_seq
                            ELSE SeqAfter(last_first_seq, last_npackets - 1)
        /\ between' = IF between.closed THEN NoGap
                       ELSE [between EXCEPT !.closed = TRUE]

\* what send_frame requires of a session before it sends to it
SendAllowed(peer) == peer.ready /\ peer.track = "open"

SendFrameBuild ==
    /\ loop_pc = "send"
    /\ encoded # << >>
    /\ peer_count_ # 0
    /\ builds < MaxBuilds
    /\ peers_mutex_ = "free"
    /\ peers_mutex_' = "video"
    /\ Packetize(encoded)
    /\ fan_todo' = DOMAIN peers_
    /\ fan_peer' = 0
    /\ fan_k' = 0
    /\ sends' = << >>
    /\ loop_pc' = "fanout"
    /\ UNCHANGED << last_frame_count, exit_code, idx, encoded >>
    /\ UNCHANGED << peers_, ws_to_peer_id_, peer_count_, ws_open >>
    /\ UNCHANGED << shmVars, connVars, procVars, encHist, sigHist >>

\* for (auto& [id, peer] : peers_) if (peer->ready && ... isOpen())
FanoutNext ==
    /\ loop_pc = "fanout"
    /\ fan_todo # {}
    /\ LET id == Lowest(fan_todo)
           passed == SendAllowed(peers_[id])
       IN  /\ sends' = Put(sends, id, [passed |-> passed, calls |-> << >>])
           /\ IF passed /\ Len(packets) > 0
              THEN /\ fan_peer' = id
                   /\ fan_k' = 1
                   /\ loop_pc' = "sending"
                   /\ UNCHANGED fan_todo
              ELSE /\ fan_todo' = fan_todo \ {id}
                   /\ UNCHANGED << fan_peer, fan_k, loop_pc >>
    /\ UNCHANGED << packets, last_frame_count, exit_code, idx, encoded >>
    /\ UNCHANGED << shmVars, connVars, procVars, peerVars, rtpVars,
                    encHist, rtpHist, sigHist, gapHist >>

\* a try/catch around the whole fan-out instead of around one send
SendCatchScopeFrame == "frame"

\* what the try/catch of send_frame encloses: the send of one packet
SendCatchScope == "packet"

\* peer->video_track->send(pkt) inside try/catch; `thrown`: send throws
FanoutSend ==
    /\ loop_pc = "sending"
    /\ \E thrown \in BOOLEAN :
          /\ sends' = [sends EXCEPT ![fan_peer].calls =
                          Append(@, [k |-> fan_k, ok |-> ~thrown])]
          /\ IF thrown /\ SendCatchScope = "frame"
             THEN /\ fan_k' = 0
                  /\ fan_peer' = 0
                  /\ fan_todo' = {}
                  /\ loop_pc' = "fanout"
             ELSE IF fan_k < Len(packets)
             THEN /\ fan_k' = fan_k + 1
                  /\ UNCHANGED << fan_todo, fan_peer, loop_pc >>
             ELSE /\ fan_k' = 0
                  /\ fan_peer' = 0
                  /\ fan_todo' = fan_todo \ {fan_peer}
                  /\ loop_pc' = "fanout"
    /\ UNCHANGED << packets, last_frame_count, exit_code, idx, encoded >>
    /\ UNCHANGED << shmVars, connVars, procVars, peerVars, rtpVars,
                    encHist, rtpHist, sigHist, gapHist >>

\* the loop over peers_ ends; send_frame returns and releases the mutex
FanoutDone ==
    /\ loop_pc = "fanout"
    /\ fan_todo = {}
    /\ peers_mutex_' = "free"
    /\ packets' = << >>
    /\ sends' = << >>
    /\ loop_pc' = "stats"
    /\ UNCHANGED << fan_todo, fan_peer, fan_k >>
    /\ UNCHANGED << last_frame_count, exit_code, idx, encoded >>
    /\ UNCHANGED << peers_, ws_to_peer_id_, peer_count_, ws_open >>
    /\ UNCHANGED << shmVars, connVars, procVars, rtpVars, encHist, rtpHist, sigHist, gapHist >>


(***************************************************************************)
(* Signaling: the WebSocket callbacks of WebRTCServer::init and            *)
(* process_signaling.  The handlers that touch peers_ hold peers_mutex_    *)
(* for their whole body.                                                   *)
(***************************************************************************)

\* candidate strings of the messages; "" is a message without a candidate
CandidateStrings == { "a", "b" }

\* std::make_shared<PeerConnection>() and the track added to it
NewPeer ==
    [ ready |-> FALSE,
      has_remote_description |-> FALSE,
      pending_candidates |-> << >>,
      track |-> "new",          \* the library's state of video_track
      reported |-> "none",      \* the last track callback that ran
      received |-> << >>,       \* candidates received over signaling
      applied |-> << >>,        \* candidates handed to addRemoteCandidate
      pc_state |-> "New",       \* the last state onStateChange was called with
      via |-> 0 ]               \* the WebSocket whose connect made the session

\* a browser opens a signaling WebSocket (onClient, onOpen: welcome)
WsOpen(ws) ==
    /\ ws \notin ws_open
    /\ ws_open' = ws_open \cup {ws}
    /\ UNCHANGED << peers_mutex_, peers_, ws_to_peer_id_, peer_count_ >>
    /\ UNCHANGED << shmVars, connVars, procVars, loopVars, rtpVars, fanVars,
                    encHist, rtpHist, sigHist, gapHist >>

\* type == "connect": rand() names the session
Connect(ws) ==
    /\ ws \in ws_open
    /\ peers_mutex_ = "free"
    /\ \E id \in PeerIds \ DOMAIN peers_ :
          /\ ws_to_peer_id_' = Put(ws_to_peer_id_, ws, id)
          /\ peers_' = Put(peers_, id, [NewPeer EXCEPT !.via = ws])
    /\ peer_count_' = peer_count_ + 1
    /\ Happened("joined")
    /\ UNCHANGED << peers_mutex_, ws_open >>
    /\ UNCHANGED << shmVars, connVars, procVars, loopVars, rtpVars, fanVars,
                    encHist, rtpHist, sigHist >>

\* a removal that would also restart the sequence numbers
RemoveSessionResettingSeq(ws) ==
    /\ peers_' = Drop(peers_, ws_to_peer_id_[ws])
    /\ ws_to_peer_id_' = Drop(ws_to_peer_id_, ws)
    /\ peer_count_' = peer_count_ - 1
    /\ seq_num_' = 0
    /\ UNCHANGED timestamp_

\* peers_.erase(it->second); ws_to_peer_id_.erase(it); peer_count_--;
\* the packetizer's counters are not touched
RemoveSession(ws) ==
    /\ peers_' = Drop(peers_, ws_to_peer_id_[ws])
    /\ ws_to_peer_id_' = Drop(ws_to_peer_id_, ws)
    /\ peer_count_' = peer_count_ - 1
    /\ UNCHANGED rtpVars

\* ws->onClosed
WsClosed(ws) ==
    /\ ws \in ws_open
    /\ peers_mutex_ = "free"
    /\ ws_open' = ws_open \ {ws}
    /\ IF ws \in DOMAIN ws_to_peer_id_
       THEN /\ RemoveSession(ws)
            /\ Happened("left")
       ELSE UNCHANGED << peers_, ws_to_peer_id_, peer_count_, between, rtpVars >>
    /\ UNCHANGED peers_mutex_
    /\ UNCHANGED << shmVars, connVars, procVars, loopVars, fanVars,
                    encHist, rtpHist, sigHist >>

\* an answer handler that clears the queue without applying it
AfterAnswerDropping(peer) ==
    [peer EXCEPT !.has_remote_description = TRUE,
                 !.pending_candidates = << >>]

\* the session after the answer's remote description was set: the pending
\* candidates are handed to addRemoteCandidate in queue order, then cleared
AfterAnswer(peer) ==
    [peer EXCEPT !.has_remote_description = TRUE,
                 !.applied = peer.applied \o peer.pending_candidates,
                 !.pending_candidates = << >>]

\* type == "answer"; `ok`: setRemoteDescription does not throw
Answer(ws, ok) ==
    /\ ws \in ws_open
    /\ peers_mutex_ = "free"
    /\ IF ws \in DOMAIN ws_to_peer_id_ /\ ok
       THEN peers_' = [peers_ EXCEPT ![ws_to_peer_id_[ws]] = AfterAnswer(@)]
       ELSE UNCHANGED peers_
    /\ UNCHANGED << peers_mutex_, ws_to_peer_id_, peer_count_, ws_open >>
    /\ UNCHANGED << shmVars, connVars, procVars, loopVars, rtpVars, fanVars,
                    encHist, rtpHist, sigHist, gapHist >>

\* a candidate handler that queues whatever the session's state
CandidateOutcomeAlwaysQueued(peer, c) ==
    IF c = "" THEN "ignored" ELSE "queued"

\* what the candidate handler does with candidate string c
CandidateOutcome(peer, c) ==
    IF c = "" THEN "ignored"
    ELSE IF peer.has_remote_description THEN "applied"
    ELSE "queued"

AfterCandidate(peer, c) ==
    LET outcome == CandidateOutcome(peer, c)
    IN  [peer EXCEPT
            !.received = IF c = "" THEN @ ELSE Append(@, c),
            !.applied = IF outcome = "applied" THEN Append(@, c) ELSE @,
            !.pending_candidates = IF outcome = "queued" THEN Append(@, c) ELSE @]

\* type == "candidate"
Candidate(ws, c) ==
    /\ ws \in ws_open
    /\ peers_mutex_ = "free"
    /\ IF ws \in DOMAIN ws_to_peer_id_
       THEN LET id == ws_to_peer_id_[ws]
            IN  /\ Len(peers_[id].received) < MaxCands
                /\ peers_' = [peers_ EXCEPT ![id] = AfterCandidate(@, c)]
                /\ last_cand' = [kind |-> IF c = "" THEN "empty" ELSE "candidate",
                                 had_remote |-> peers_[id].has_remote_description,
                                 outcome |-> CandidateOutcome(peers_[id], c)]
       ELSE UNCHANGED << peers_, last_cand >>
    /\ UNCHANGED << peers_mutex_, ws_to_peer_id_, peer_count_, ws_open >>
    /\ UNCHANGED << shmVars, connVars, procVars, loopVars, rtpVars, fanVars,
                    encHist, rtpHist, gapHist >>

(***************************************************************************)
(* The video track of a session (libdatachannel): it opens once the        *)
(* remote description is set, and closes; each change is followed by the   *)
(* callback registered in process_signaling, which writes `ready` without  *)
(* taking peers_mutex_.                                                    *)
(***************************************************************************)
TrackStep(id, from, to) ==
    /\ id \in DOMAIN peers_
    /\ peers_[id].track \in from
    /\ peers_' = [peers_ EXCEPT ![id].track = to]
    /\ UNCHANGED << peers_mutex_, ws_to_peer_id_, peer_count_, ws_open >>
    /\ UNCHANGED << shmVars, connVars, procVars, loopVars, rtpVars, fanVars,
                    encHist, rtpHist, sigHist, gapHist >>

TrackOpens(id) ==
    /\ id \in DOMAIN peers_
    /\ peers_[id].has_remote_description
    /\ TrackStep(id, {"new"}, "open")

TrackCloses(id) == TrackStep(id, {"new", "open"}, "closed")

\* the value onOpen / onClosed store in peer->ready
ReadyOnOpen == TRUE
ReadyOnClosed == FALSE

TrackCallback(id, state, ready) ==
    /\ id \in DOMAIN peers_
    /\ peers_[id].track = state
    /\ peers_[id].reported # state
    /\ peers_' = [peers_ EXCEPT ![id].ready = ready, ![id].reported = state]
    /\ UNCHANGED << peers_mutex_, ws_to_peer_id_, peer_count_, ws_open >>
    /\ UNCHANGED << shmVars, connVars, procVars, loopVars, rtpVars, fanVars,
                    encHist, rtpHist, sigHist, gapHist >>

\* video_track->onOpen
OnTrackOpen(id) == TrackCallback(id, "open", ReadyOnOpen)

\* video_track->onClosed
OnTrackClosed(id) == TrackCallback(id, "closed", ReadyOnClosed)

\* the open track of a session fails (libdatachannel reports an error on it)
TrackFails(id) == TrackStep(id, {"open"}, "error")

\* video_track->onError: it prints the error
OnTrackError(id) ==
    /\ id \in DOMAIN peers_
    /\ peers_[id].track = "error"
    /\ peers_[id].reported # "error"
    /\ peers_' = [peers_ EXCEPT ![id].reported = "error"]
    /\ UNCHANGED << peers_mutex_, ws_to_peer_id_, peer_count_, ws_open >>
    /\ UNCHANGED << shmVars, connVars, procVars, loopVars, rtpVars, fanVars,
                    encHist, rtpHist, sigHist, gapHist >>


(***************************************************************************)
(* The peer connection of a session (libdatachannel) changes state and     *)
(* calls the onStateChange callback registered in process_signaling, which *)
(* names the state and prints it.                                          *)
(***************************************************************************)
PcStates == { "New", "Connecting", "Connected", "Disconnected", "Failed", "Closed" }

\* the states a peer connection passes to from `state`
PcSuccessors(state) ==
    CASE state = "New"          -> { "Connecting", "Closed" }
      [] state = "Connecting"   -> { "Connected", "Failed", "Closed" }
      [] state = "Connected"    -> { "Disconnected", "Closed" }
      [] state = "Disconnected" -> { "Connected", "Failed", "Closed" }
      [] state = "Failed"       -> { "Closed" }
      [] OTHER                  -> { }

\* peer->pc->onStateChange([peer](State state) { ... fprintf ... })
OnStateChange(id, state) ==
    /\ id \in DOMAIN peers_
    /\ state \in PcSuccessors(peers_[id].pc_state)
    /\ peers_' = [peers_ EXCEPT ![id].pc_state = state]
    /\ UNCHANGED << peers_mutex_, ws_to_peer_id_, peer_count_, ws_open >>
    /\ UNCHANGED << shmVars, connVars, procVars, loopVars, rtpVars, fanVars,
                    encHist, rtpHist, sigHist, gapHist >>

(***************************************************************************)
(* Summaries used where the shared memory is not the subject.              *)
(***************************************************************************)
\* video_loop from the load of frame_count to the return of encode, with
\* the shared memory left out: no new frame (continue), or a new frame
\* whose encoding is f
LoopReadAndEncode ==
    /\ loop_pc = "count"
    /\ \/ /\ loop_pc' = "top"
          /\ UNCHANGED encoded
       \/ /\ \E f \in EncodedFrames : encoded' = f
          /\ loop_pc' = "send"
    /\ UNCHANGED << last_frame_count, exit_code, idx >>
    /\ UNCHANGED << shmVars, connVars, procVars, peerVars, rtpVars, fanVars,
                    encHist, rtpHist, sigHist, gapHist >>

\* frame lengths around the packet boundaries
BoundaryLengths ==
    { 0, 1, MaxPayload - 1, MaxPayload, MaxPayload + 1,
      2 * MaxPayload, 2 * MaxPayload + 1 }

BoundaryFrames == { FrameBytes(n, b0) : n \in BoundaryLengths, b0 \in {0, 1} }

\* one call of build_rtp_packets(frame, keyframe)
RtpBuild(frame) ==
    /\ builds < MaxBuilds
    /\ encoded' = frame
    /\ Packetize(frame)
    /\ UNCHANGED << loop_pc, last_frame_count, exit_code, idx >>
    /\ UNCHANGED << fan_todo, fan_peer, fan_k, sends >>
    /\ UNCHANGED << shmVars, connVars, procVars, peerVars, encHist, sigHist >>

\* values the counters hold after the server has run for a while:
\* seq_num_ takes every 16-bit value; timestamp_ is 3000 times the number
\* of frames packetized, modulo 2^32 (1431655 * 3000 = 65535 * 2^16 + 63240)
SeqStarts == { 0, 255, TwoPow16 - 2, TwoPow16 - 1 }
TimestampStarts == { Word32(0, 0), Word32(TwoPow16 - 1, 63240) }

\* the server started with --no-auto-start
InitNoAutoStart == Init /\ ~g_auto_start_emulator

\* the server after 1431655 frames, its browsers gone
InitStamp ==
    /\ InitRest
    /\ ~g_auto_start_emulator
    /\ seq_num_ = 0
    /\ timestamp_ \in TimestampStarts

InitRtp ==
    /\ InitRest
    /\ ~g_auto_start_emulator
    /\ seq_num_ \in SeqStarts
    /\ timestamp_ \in TimestampStarts

(***************************************************************************)
(* Specifications.                                                         *)
(***************************************************************************)
WriterStep == WriterBegin \/ WriterPublish \/ WriterCount

SupervisorStep ==
    \/ LoopCheckStatus
    \/ LoopAutoRestart
    \/ LoopRestartRequested

\* the statements of video_loop around the shared-memory read
LoopFrameStep ==
    \/ LoopTop
    \/ SupervisorStep
    \/ LoopAccept
    \/ LoopPeek
    \/ LoopSendSkip
    \/ LoopStats

LoopReadStep ==
    \/ LoopCount
    \/ LoopIndex
    \/ LoopEncodeBegin
    \/ LoopEncodeEnd

FanoutStep == SendFrameBuild \/ FanoutNext \/ FanoutSend \/ FanoutDone

TableStep ==
    \E ws \in WebSockets :
        \/ WsOpen(ws)
        \/ Connect(ws)
        \/ WsClosed(ws)

AnswerStep == \E ws \in WebSockets : \E ok \in BOOLEAN : Answer(ws, ok)

CandidateStep ==
    \E ws \in WebSockets : \E c \in CandidateStrings \cup {""} : Candidate(ws, c)

PcStateStep == \E id \in PeerIds : \E state \in PcStates : OnStateChange(id, state)

TrackStepAny ==
    \E id \in PeerIds :
        \/ TrackOpens(id)
        \/ TrackCloses(id)
        \/ OnTrackOpen(id)
        \/ OnTrackClosed(id)

\* the whole server with its environment
Next ==
    \/ WriterStep
    \/ EmulatorConnects
    \/ EmulatorCloses
    \/ ChildExits
    \/ ApiRestart
    \/ LoopFrameStep
    \/ LoopReadStep
    \/ LoopStop
    \/ LoopStart
    \/ FanoutStep
    \/ TableStep
    \/ AnswerStep
    \/ CandidateStep
    \/ TrackStepAny
    \/ PcStateStep

Spec == Init /\ [][Next]_vars

\* the video pipeline with the emulator coming and going; no browser
NextVideo ==
    \/ WriterStep
    \/ EmulatorConnects
    \/ EmulatorCloses
    \/ ChildExits
    \/ LoopFrameStep
    \/ LoopReadStep

SpecVideo == Init /\ [][NextVideo]_vars

\* the packetizer alone, from counters near their wrap
NextRtp == \E frame \in BoundaryFrames : RtpBuild(frame)

SpecRtp == InitRtp /\ [][NextRtp]_vars

\* packetizing while browsers come and go and the emulator is restarted
NextStamp ==
    \/ ApiRestart
    \/ LoopFrameStep
    \/ LoopReadAndEncode
    \/ LoopStop
    \/ LoopStart
    \/ SendFrameBuild
    \/ FanoutNext
    \/ FanoutDone
    \/ TableStep

SpecStamp == InitStamp /\ [][NextStamp]_vars

\* the fan-out with sessions and their tracks (server started with
\* --no-auto-start, no emulator)
NextSend ==
    \/ LoopFrameStep
    \/ LoopReadAndEncode
    \/ FanoutStep
    \/ TableStep
    \/ AnswerStep
    \/ TrackStepAny

SpecSend == InitNoAutoStart /\ [][NextSend]_vars

\* signaling alone
NextSignal ==
    \/ TableStep
    \/ AnswerStep
    \/ CandidateStep

SpecSignal == InitNoAutoStart /\ [][NextSignal]_vars

\* the session table and the peer connections' states
NextSession ==
    \/ TableStep
    \/ AnswerStep
    \/ PcStateStep

SpecSession == InitNoAutoStart /\ [][NextSession]_vars

(***************************************************************************)
(* The emulator process and its supervision: the supervisor check and the  *)
(* restart request of video_loop, the /api/emulator requests of the HTTP   *)
(* server thread, the child's own exit and the control connection.  No     *)
(* frame is published, so every pass of the loop returns to its top.       *)
(***************************************************************************)
NextSupervisor ==
    \/ ChildExits
    \/ EmulatorConnects
    \/ EmulatorCloses
    \/ ApiRestart
    \/ ApiStart
    \/ ApiStop
    \/ LoopTop
    \/ SupervisorStep
    \/ LoopStopSteps
    \/ LoopStart
    \/ LoopAccept
    \/ LoopPeek
    \/ LoopCount

SpecSupervisor == Init /\ [][NextSupervisor]_vars

(***************************************************************************)
(* The emulator process next to the session table: browsers connect and    *)
(* leave while the child exits, is stopped, started and restarted.  Each   *)
(* call of stop_emulator is one step.                                      *)
(***************************************************************************)
NextSurvive ==
    \/ ChildExits
    \/ ApiRestart
    \/ ApiStart
    \/ ApiStopCall
    \/ LoopTop
    \/ SupervisorStep
    \/ LoopStop
    \/ LoopStart
    \/ LoopAccept
    \/ LoopPeek
    \/ LoopCount
    \/ TableStep

SpecSurvive == Init /\ [][NextSurvive]_vars

(***************************************************************************)
(* The control connection with all of its writers: video_loop accepts,     *)
(* greets and watches the connection, the HTTP thread and the data         *)
(* channels of the sessions send lines to it, emulators connect and close. *)
(***************************************************************************)
NextControl ==
    \/ EmulatorConnects
    \/ EmulatorCloses
    \/ ApiRestartMessage
    \/ HandleInput
    \/ LoopTop
    \/ SupervisorStep
    \/ LoopAcceptTake
    \/ LoopAcceptHello
    \/ LoopPeek
    \/ LoopCount
    \/ TableStep
    \/ AnswerStep

SpecControl == InitNoAutoStart /\ [][NextControl]_vars

\* the statements of video_loop when no frame is published
LoopControlStep ==
    \/ LoopTop
    \/ SupervisorStep
    \/ LoopAcceptTake
    \/ LoopAcceptHello
    \/ LoopPeek
    \/ LoopCount

(***************************************************************************)
(* Emulators come and go on the control socket while video_loop keeps      *)
(* running: the loop sleeps at most 100 ms per iteration and is scheduled  *)
(* again, so its next statement is eventually executed.                    *)
(***************************************************************************)
NextReconnect ==
    \/ EmulatorConnects
    \/ EmulatorCloses
    \/ ApiRestartMessage
    \/ LoopControlStep

SpecReconnect ==
    InitNoAutoStart /\ [][NextReconnect]_vars /\ WF_vars(LoopControlStep)

(***************************************************************************)
(* main from create_video_shm to its return: the startup stages, each of   *)
(* which may fail, video_loop until a signal clears g_running, and the     *)
(* shutdown.  SIGINT and SIGTERM only clear g_running.                     *)
(***************************************************************************)
InitMain ==
    /\ InitShm /\ InitLoopNotCalled /\ InitPeers /\ InitFan /\ InitHist /\ InitRtpCounters
    /\ g_listen_socket = FALSE
    /\ backlog = 0
    /\ g_control_socket = -1
    /\ g_emulator_connected = FALSE
    /\ conn_peer = "none"
    /\ hello_count = 0
    /\ first_line = "none"
    /\ send_result = "none"
    /\ g_auto_start_emulator \in BOOLEAN
    /\ g_emulator_pid = -1
    /\ child = NoChild
    /\ g_restart_emulator_requested = FALSE
    /\ g_running = TRUE
    /\ stop_pc = [t \in StopThreads |-> "idle"]
    /\ polls = [t \in StopThreads |-> 0]
    /\ sigs = [t \in StopThreads |-> << >>]
    /\ start_pc = [t \in StopThreads |-> "idle"]
    /\ orphans = 0
    /\ http_pc = "poll"
    /\ respawn = NoRespawn
    /\ main_pc = "create_video_shm"
    /\ shm_name \in { "absent", "stale" }
    /\ sock_path \in { "absent", "stale" }
    /\ http_running = FALSE
    /\ ws_server_ = FALSE
    /\ done = << >>
    /\ encoder = NewEncoder("VP8")
    /\ audio = NoAudio

\* what main leaves alone at every stage
MainFrame ==
    /\ UNCHANGED << g_auto_start_emulator, g_restart_emulator_requested, g_running,
                    stopVars, supHist, encoder, audio >>
    /\ UNCHANGED << shmVars, last_frame_count, exit_code, idx, encoded,
                    rtpVars, fanVars, encHist, rtpHist, sigHist, gapHist >>

\* create_video_shm: the stale name is unlinked first; every failure
\* leaves the name unlinked
create_video_shm(ok) == shm_name' = IF ok THEN "created" ELSE "absent"

\* destroy_video_shm: munmap; if (g_video_shm_fd >= 0) close, shm_unlink
destroy_video_shm == shm_name' = IF shm_name = "created" THEN "absent" ELSE shm_name

CreateSocketOutcomes == { "ok", "socket", "bind", "listen" }

\* create_control_socket: unlink the stale path; socket, bind, listen; a
\* failed listen unlinks the path bind created
create_control_socket(outcome) ==
    /\ sock_path' = IF outcome = "ok" THEN "bound" ELSE "absent"
    /\ g_listen_socket' = (outcome = "ok")
    /\ UNCHANGED << backlog, g_control_socket, g_emulator_connected, conn_peer,
                    hello_count, first_line, send_result >>

\* a destroy_control_socket that would leave the path in place
destroy_control_socket_keeping_path ==
    /\ g_control_socket' = -1
    /\ g_emulator_connected' = FALSE
    /\ conn_peer' = "none"
    /\ hello_count' = 0
    /\ first_line' = "none"
    /\ send_result' = "none"
    /\ g_listen_socket' = FALSE
    /\ backlog' = 0
    /\ UNCHANGED sock_path

\* destroy_control_socket: close_emulator_connection(); close the
\* listening socket; unlink the path
destroy_control_socket ==
    /\ g_control_socket' = -1
    /\ g_emulator_connected' = FALSE
    /\ conn_peer' = "none"
    /\ hello_count' = 0
    /\ first_line' = "none"
    /\ send_result' = "none"
    /\ g_listen_socket' = FALSE
    /\ backlog' = 0
    /\ sock_path' = "absent"

MainCreateVideoShm ==
    /\ main_pc = "create_video_shm"
    /\ \E ok \in BOOLEAN :
          /\ create_video_shm(ok)
          /\ main_pc' = IF ok THEN "create_control_socket" ELSE "returned"
    /\ UNCHANGED << sock_path, http_running, ws_server_, done, loop_pc >>
    /\ UNCHANGED << connVars, g_emulator_pid, child, peerVars >>
    /\ MainFrame

MainCreateControlSocket ==
    /\ main_pc = "create_control_socket"
    /\ \E outcome \in CreateSocketOutcomes :
          /\ create_control_socket(outcome)
          /\ IF outcome = "ok"
             THEN main_pc' = "http_start" /\ UNCHANGED shm_name
             ELSE main_pc' = "returned" /\ destroy_video_shm
    /\ UNCHANGED << http_running, ws_server_, done, loop_pc >>
    /\ UNCHANGED << g_emulator_pid, child, peerVars >>
    /\ MainFrame

\* http_server.start(g_http_port)
MainHttpStart ==
    /\ main_pc = "http_start"
    /\ \E ok \in BOOLEAN :
          IF ok
          THEN /\ http_running' = TRUE
               /\ main_pc' = "webrtc_init"
               /\ UNCHANGED << shm_name, sock_path, connVars >>
          ELSE /\ destroy_control_socket
               /\ destroy_video_shm
               /\ main_pc' = "returned"
               /\ UNCHANGED http_running
    /\ UNCHANGED << ws_server_, done, loop_pc >>
    /\ UNCHANGED << g_emulator_pid, child, peerVars >>
    /\ MainFrame

\* webrtc.init(g_signaling_port)
MainWebrtcInit ==
    /\ main_pc = "webrtc_init"
    /\ \E ok \in BOOLEAN :
          IF ok
          THEN /\ ws_server_' = TRUE
               /\ main_pc' = "auto_start"
               /\ UNCHANGED << shm_name, sock_path, http_running, connVars >>
          ELSE /\ http_running' = FALSE
               /\ destroy_control_socket
               /\ destroy_video_shm
               /\ main_pc' = "returned"
               /\ UNCHANGED ws_server_
    /\ UNCHANGED << done, loop_pc >>
    /\ UNCHANGED << g_emulator_pid, child, peerVars >>
    /\ MainFrame

\* if (g_auto_start_emulator) { find_emulator(); start_emulator(); } and
\* the call of video_loop
MainAutoStart ==
    /\ main_pc = "auto_start"
    /\ \E found \in BOOLEAN : \E ok \in BOOLEAN :
          IF g_auto_start_emulator /\ found
          THEN start_emulator(ok)
          ELSE UNCHANGED << g_emulator_pid, child, peerVars >>
    /\ main_pc' = "video_loop"
    /\ loop_pc' = "top"
    /\ UNCHANGED << shm_name, sock_path, http_running, ws_server_, done, connVars >>
    /\ MainFrame

\* signal_handler: g_running = false
Signal ==
    /\ main_pc # "returned"
    /\ g_running
    /\ g_running' = FALSE
    /\ UNCHANGED << g_emulator_pid, child, g_auto_start_emulator,
                    g_restart_emulator_requested, mainVars, stopVars, supHist >>
    /\ UNCHANGED << shmVars, connVars, loopVars, peerVars, rtpVars, fanVars,
                    encHist, rtpHist, sigHist, gapHist >>

\* video_loop has returned: stop_emulator();
MainStopEmulator ==
    /\ main_pc = "video_loop"
    /\ loop_pc = "exited"
    /\ stop_pc["http"] = "idle"
    /\ stop_emulator
    /\ done' = Append(done, "emulator")
    /\ main_pc' = "webrtc_shutdown"
    /\ UNCHANGED << shm_name, sock_path, http_running, ws_server_, loop_pc >>
    /\ UNCHANGED << connVars, peerVars >>
    /\ MainFrame

\* webrtc.shutdown(): under the lock, peers_.clear(); ws_to_peer_id_.clear();
\* ws_server_.reset();
MainWebrtcShutdown ==
    /\ main_pc = "webrtc_shutdown"
    /\ peers_mutex_ = "free"
    /\ peers_' = << >>
    /\ ws_to_peer_id_' = << >>
    /\ ws_server_' = FALSE
    /\ done' = Append(done, "signaling")
    /\ main_pc' = "http_stop"
    /\ UNCHANGED << peers_mutex_, peer_count_, ws_open >>
    /\ UNCHANGED << shm_name, sock_path, http_running, loop_pc >>
    /\ UNCHANGED << connVars, g_emulator_pid, child >>
    /\ MainFrame

\* http_server.stop(): running_ = false; close; join
\* thread_.join() of HTTPServer::stop returns: the server thread is in its
\* loop, where it sees running_ or g_running cleared within one poll
\* timeout, and not in handle_client's recv
HttpThreadJoins == http_pc = "poll"

MainHttpStop ==
    /\ main_pc = "http_stop"
    /\ stop_pc["http"] = "idle"
    /\ HttpThreadJoins
    /\ http_running' = FALSE
    /\ done' = Append(done, "http")
    /\ main_pc' = "destroy_control_socket"
    /\ UNCHANGED << shm_name, sock_path, ws_server_, loop_pc >>
    /\ UNCHANGED << connVars, g_emulator_pid, child, peerVars >>
    /\ MainFrame

MainDestroyControlSocket ==
    /\ main_pc = "destroy_control_socket"
    /\ destroy_control_socket
    /\ done' = Append(done, "socket_path")
    /\ main_pc' = "destroy_video_shm"
    /\ UNCHANGED << shm_name, http_running, ws_server_, loop_pc >>
    /\ UNCHANGED << g_emulator_pid, child, peerVars >>
    /\ MainFrame

MainDestroyVideoShm ==
    /\ main_pc = "destroy_video_shm"
    /\ destroy_video_shm
    /\ done' = Append(done, "shm")
    /\ main_pc' = "returned"
    /\ UNCHANGED << sock_path, http_running, ws_server_, loop_pc >>
    /\ UNCHANGED << connVars, g_emulator_pid, child, peerVars >>
    /\ MainFrame

MainStep ==
    \/ MainCreateVideoShm
    \/ MainCreateControlSocket
    \/ MainHttpStart
    \/ MainWebrtcInit
    \/ MainAutoStart
    \/ MainStopEmulator
    \/ MainWebrtcShutdown
    \/ MainHttpStop
    \/ MainDestroyControlSocket
    \/ MainDestroyVideoShm

\* a request the HTTP thread serves while it runs
ApiStartServing == http_running /\ ApiStart

\* signaling events while the signaling server exists
TableStepServing == ws_server_ /\ TableStep

NextMain ==
    \/ MainStep
    \/ Signal
    \/ EmulatorConnects
    \/ EmulatorCloses
    \/ ChildExits
    \/ ApiStartServing
    \/ TableStepServing
    \/ LoopTop
    \/ SupervisorStep
    \/ LoopAccept
    \/ LoopPeek
    \/ LoopCount

SpecMain == InitMain /\ [][NextMain]_vars

(***************************************************************************)
(* Sessions and their video tracks: tracks open, fail and close, and the   *)
(* three track callbacks run.                                              *)
(***************************************************************************)
TrackErrorStep == \E id \in PeerIds : TrackFails(id) \/ OnTrackError(id)

NextTrack ==
    \/ TableStep
    \/ AnswerStep
    \/ TrackStepAny
    \/ TrackErrorStep

SpecTrack == InitNoAutoStart /\ [][NextTrack]_vars

(***************************************************************************)
(* The encoders.  VP8Encoder::encode initialises the codec when there is   *)
(* none or the geometry changed, then calls vpx_codec_encode with flags 0: *)
(* the codec decides which frames are keyframes (the first after init, and *)
(* at most kf_max_dist frames apart).  VP8Encoder has no request_keyframe. *)
(* H264Encoder::request_keyframe sets force_keyframe_, which starts true;  *)
(* its encode functions pass the flag to the codec and clear it.           *)
(***************************************************************************)
CodecTypes == { "VP8", "H264" }

\* cfg.kf_max_dist
KF_MAX_DIST == 15

\* geometries of the frames handed to the encoder
FrameGeometries == { << 800, 600 >>, << 640, 480 >> }

InitEncoders ==
    /\ InitShm /\ InitConn /\ InitLoop /\ InitPeers /\ InitFan /\ InitHist /\ InitRtpCounters
    /\ g_auto_start_emulator = FALSE
    /\ g_emulator_pid = -1
    /\ child = NoChild
    /\ g_restart_emulator_requested = FALSE
    /\ g_running = TRUE
    /\ stop_pc = [t \in StopThreads |-> "idle"]
    /\ polls = [t \in StopThreads |-> 0]
    /\ sigs = [t \in StopThreads |-> << >>]
    /\ start_pc = [t \in StopThreads |-> "idle"]
    /\ orphans = 0
    /\ http_pc = "poll"
    /\ respawn = NoRespawn
    /\ MainInVideoLoop
    /\ \E kind \in CodecTypes : encoder = NewEncoder(kind)
    /\ audio = NoAudio

\* what the codec emits for a frame it encodes: a keyframe when it is the
\* first since init, when the caller forces one or when kf_max_dist frames
\* went by without one; else the codec chooses (auto)
CodecOutput(since_init, force, since_key, auto) ==
    IF since_init \/ force \/ since_key >= KF_MAX_DIST \/ auto THEN "key" ELSE "delta"

\* the force-keyframe hint VP8Encoder::encode passes: flags = 0
Vp8ForceHint(e) == FALSE

\* the hint the H.264 encoder passes: force_keyframe_
H264ForceHint(e) == e.force_keyframe_

ForceHint(e) == IF e.kind = "H264" THEN H264ForceHint(e) ELSE Vp8ForceHint(e)

\* how init(width, height) ends: vpx_codec_enc_config_default fails,
\* vpx_codec_enc_init fails, vpx_img_alloc fails, or it succeeds
InitOutcomes == { "config", "enc_init", "img_alloc", "ok" }

\* an encode that would look at the codec only
NeedsInitWithoutCodec(e, g) == ~e.codec_

\* if (!codec_ || width != width_ || height != height_)
NeedsInit(e, g) == ~e.codec_ \/ g[1] # e.geometry[1] \/ g[2] # e.geometry[2]

\* init(width, height): cleanup() destroys the codec; width_ and height_ are
\* stored once the codec is initialised, before the image is allocated; a
\* failed allocation calls cleanup() again
init(e, g, outcome) ==
    [e EXCEPT !.codec_ = (outcome = "ok"),
              !.geometry = IF outcome \in { "img_alloc", "ok" } THEN g ELSE e.geometry,
              !.since_key = 0,
              !.reinit = TRUE]

\* encode(frame of geometry g); encode_ok: vpx_codec_encode succeeds
encode(e, g, outcome, encode_ok, auto) ==
    LET called == [e EXCEPT !.frame = g, !.reinit = FALSE, !.call = 1 - e.call]
        ready == IF NeedsInit(called, g) THEN init(called, g, outcome) ELSE called
    IN  IF ~ready.codec_ \/ ~encode_ok
        THEN [ready EXCEPT !.out = "empty"]
        ELSE LET kind_out == CodecOutput(ready.since_key = 0, ForceHint(ready),
                                         ready.since_key, auto)
             IN  [ready EXCEPT !.out = kind_out,
                               !.force_keyframe_ = FALSE,
                               !.requested = FALSE,
                               !.since_key = IF kind_out = "key" THEN 1
                                             ELSE ready.since_key + 1]

\* request_keyframe(): H264Encoder sets force_keyframe_; VP8Encoder has no
\* such member, a request for a keyframe does not reach it
request_keyframe(e) ==
    [e EXCEPT !.force_keyframe_ = (e.kind = "H264"), !.requested = TRUE]

EncoderFrame ==
    UNCHANGED << shmVars, connVars, g_emulator_pid, child, g_auto_start_emulator,
                 g_restart_emulator_requested, g_running, main_pc, shm_name, sock_path,
                 http_running, ws_server_, done, audio, stopVars, supHist, loopVars, peerVars,
                 rtpVars, fanVars, encHist, rtpHist, sigHist, gapHist >>

EncodeCall ==
    /\ \E g \in FrameGeometries : \E outcome \in InitOutcomes :
       \E encode_ok, auto \in BOOLEAN :
          encoder' = encode(encoder, g, outcome, encode_ok, auto)
    /\ EncoderFrame

RequestKeyframe ==
    /\ encoder' = request_keyframe(encoder)
    /\ EncoderFrame

NextEncoders == EncodeCall \/ RequestKeyframe

SpecEncoders == InitEncoders /\ [][NextEncoders]_vars

(***************************************************************************)
(* The audio ring of ipc_protocol.h: macemu_audio_available and            *)
(* macemu_audio_free, computed on uint32_t as the C code computes them.    *)
(* The emulator moves write_pos, the reader moves read_pos.                *)
(***************************************************************************)
\* a - b modulo 2^32
Word32Sub(a, b) ==
    LET lo == a[2] - b[2]
        borrow == IF lo < 0 THEN 1 ELSE 0
        hi == a[1] - b[1] - borrow
    IN  Word32((hi + TwoPow16) % TwoPow16, (lo + TwoPow16) % TwoPow16)

\* w % n for 0 < n <= 2^16
Word32Mod(w, n) == ((((w[1] % n) * (TwoPow16 % n)) % n) + (w[2] % n)) % n

\* an available that would take the distance between the positions
macemu_audio_available_distance(buf) ==
    IF buf.write_pos >= buf.read_pos
    THEN (buf.write_pos - buf.read_pos) % buf.buffer_size
    ELSE (buf.read_pos - buf.write_pos) % buf.buffer_size

\* return (write_val - read_val) % buf->buffer_size;
macemu_audio_available(buf) ==
    Word32Mod(Word32Sub(Word32(0, buf.write_pos), Word32(0, buf.read_pos)), buf.buffer_size)

\* return buf->buffer_size - macemu_audio_available(buf) - 1;
macemu_audio_free(buf) == buf.buffer_size - macemu_audio_available(buf) - 1

\* positions at the ends and in the middle of the ring
AudioPositions ==
    { 0, 1, 2, 255, 256, MACEMU_AUDIO_BUFFER_SIZE \div 2 - 1, MACEMU_AUDIO_BUFFER_SIZE \div 2,
      MACEMU_AUDIO_BUFFER_SIZE - 2, MACEMU_AUDIO_BUFFER_SIZE - 1 }

InitAudio ==
    /\ InitShm /\ InitConn /\ InitLoop /\ InitPeers /\ InitFan /\ InitHist /\ InitRtpCounters
    /\ g_auto_start_emulator = FALSE
    /\ g_emulator_pid = -1
    /\ child = NoChild
    /\ g_restart_emulator_requested = FALSE
    /\ g_running = TRUE
    /\ stop_pc = [t \in StopThreads |-> "idle"]
    /\ polls = [t \in StopThreads |-> 0]
    /\ sigs = [t \in StopThreads |-> << >>]
    /\ start_pc = [t \in StopThreads |-> "idle"]
    /\ orphans = 0
    /\ http_pc = "poll"
    /\ respawn = NoRespawn
    /\ MainInVideoLoop
    /\ encoder = NewEncoder("VP8")
    /\ \E wp \in AudioPositions : \E rp \in AudioPositions : audio = AudioRing(wp, rp)

AudioFrame ==
    UNCHANGED << shmVars, connVars, g_emulator_pid, child, g_auto_start_emulator,
                 g_restart_emulator_requested, g_running, main_pc, shm_name, sock_path,
                 http_running, ws_server_, done, encoder, stopVars, supHist, loopVars,
                 peerVars, rtpVars, fanVars, encHist, rtpHist, sigHist, gapHist >>

\* both helpers are called on the ring
AudioMeasure ==
    /\ audio.available = -1
    /\ audio' = [audio EXCEPT !.available = macemu_audio_available(audio),
                              !.free = macemu_audio_free(audio)]
    /\ AudioFrame

\* the writer or the reader has moved its position
AudioMove ==
    /\ \E wp \in AudioPositions : \E rp \in AudioPositions :
          /\ << wp, rp >> # << audio.write_pos, audio.read_pos >>
          /\ wp = audio.write_pos \/ rp = audio.read_pos
          /\ audio' = AudioRing(wp, rp)
    /\ AudioFrame

NextAudio == AudioMeasure \/ AudioMove

SpecAudio == InitAudio /\ [][NextAudio]_vars

(***************************************************************************)
(* start_emulator statement by statement, called by thread t: video_loop   *)
(* after exit code 75 or for a restart request, the HTTP server thread for *)
(* /api/emulator/start.  Between the test of g_emulator_pid and the store  *)
(* of the forked pid lie find_emulator and fork.                           *)
(***************************************************************************)
\* the processes fork may create before it fails with EAGAIN
MaxChildren == 2

\* the emulator processes that run
Children == orphans + (IF child.state = "running" THEN 1 ELSE 0)

\* return of start_emulator to its caller
StartReturns(t) ==
    /\ start_pc' = [start_pc EXCEPT ![t] = "idle"]
    /\ loop_pc' = IF t # "loop" THEN loop_pc
                  ELSE IF loop_pc = "respawn" THEN "restart_req" ELSE "accept"

StartFrame ==
    /\ UNCHANGED << g_auto_start_emulator, g_restart_emulator_requested, g_running, mainVars,
                    stop_pc, polls, sigs, http_pc, supHist >>
    /\ UNCHANGED << last_frame_count, exit_code, idx, encoded >>
    /\ UNCHANGED << shmVars, connVars, peerVars, rtpVars, fanVars,
                    encHist, rtpHist, sigHist, gapHist >>

\* if (g_emulator_pid > 0) { waitpid(g_emulator_pid, &status, WNOHANG) == 0
StartTestKeeps == g_emulator_pid > 0 /\ child.state = "running"

\* if (g_emulator_pid > 0) { ... return true; or g_emulator_pid = -1; }
\* the HTTP handler calls start_emulator only when g_emulator_pid <= 0
StartTest(t) ==
    /\ start_pc[t] = "idle"
    /\ IF t = "loop" THEN loop_pc \in { "respawn", "start" }
                     ELSE stop_pc[t] = "idle" /\ g_emulator_pid <= 0
    /\ IF StartTestKeeps
       THEN /\ StartReturns(t)
            /\ UNCHANGED << g_emulator_pid, child >>
       ELSE /\ g_emulator_pid' = IF g_emulator_pid > 0 THEN -1 ELSE g_emulator_pid
            /\ child' = IF g_emulator_pid > 0 /\ child.state = "zombie" THEN NoChild ELSE child
            /\ start_pc' = [start_pc EXCEPT ![t] = "fork"]
            /\ UNCHANGED loop_pc
    /\ UNCHANGED orphans
    /\ StartFrame

\* find_emulator(); pid_t pid = fork(); ... g_emulator_pid = pid; return true;
\* `ok`: an executable is found and fork succeeds
StartFork(t) ==
    /\ start_pc[t] = "fork"
    /\ \E ok \in BOOLEAN :
          IF ok /\ Children < MaxChildren
          THEN /\ g_emulator_pid' = ChildPid
               /\ child' = [state |-> "running", kind |-> "none", code |-> 0]
               /\ orphans' = Children
          ELSE UNCHANGED << g_emulator_pid, child, orphans >>
    /\ StartReturns(t)
    /\ StartFrame

start_emulator_steps(t) == StartTest(t) \/ StartFork(t)

\* HTTPServer::handle_client, POST /api/emulator/start, statement by statement
ApiStartSteps == start_emulator_steps("http")

\* start_emulator() of video_loop, statement by statement
LoopStartSteps == start_emulator_steps("loop")

\* if (exit_code > 0 && g_auto_start_emulator) if (exit_code == 75), up to
\* the call of start_emulator
LoopRespawnTest ==
    /\ loop_pc = "auto_restart"
    /\ loop_pc' = IF ShouldRespawn(exit_code, g_auto_start_emulator)
                  THEN "respawn" ELSE "restart_req"
    /\ exit_code' = 0
    /\ respawn' = NoRespawn
    /\ UNCHANGED << last_frame_count, idx, encoded >>
    /\ UNCHANGED << g_emulator_pid, child, g_auto_start_emulator,
                    g_restart_emulator_requested, g_running, mainVars, stopVars >>
    /\ UNCHANGED << shmVars, connVars, peerVars, rtpVars, fanVars,
                    encHist, rtpHist, sigHist, gapHist >>

\* the two threads that start and stop the emulator
NextChildren ==
    \/ ChildExits
    \/ ApiRestart
    \/ ApiStartSteps
    \/ ApiStopCall
    \/ LoopTop
    \/ LoopCheckStatus
    \/ LoopRespawnTest
    \/ LoopRestartRequested
    \/ LoopStop
    \/ LoopStartSteps
    \/ LoopAccept
    \/ LoopPeek
    \/ LoopCount

SpecChildren == Init /\ [][NextChildren]_vars

(***************************************************************************)
(* Shutdown after a signal, with the HTTP server thread of HTTPServer::run *)
(* and video_loop's restart of the emulator statement by statement.        *)
(***************************************************************************)
HttpFrame ==
    /\ UNCHANGED << g_emulator_pid, child, g_auto_start_emulator, g_running, mainVars,
                    stop_pc, polls, sigs, start_pc, orphans, supHist >>
    /\ UNCHANGED << shmVars, connVars, loopVars, peerVars, rtpVars, fanVars,
                    encHist, rtpHist, sigHist, gapHist >>

\* while (running_ && g_running) { poll(&pfd, 1, 100); accept(...);
\* a client has connected and handle_client is entered
HttpAccept ==
    /\ http_running
    /\ g_running
    /\ http_pc = "poll"
    /\ http_pc' = "recv"
    /\ UNCHANGED g_restart_emulator_requested
    /\ HttpFrame

\* recv(fd, buffer, sizeof(buffer) - 1, 0) returns: the client has sent its
\* request, POST /api/emulator/restart or one that changes nothing, or has
\* closed; the request is handled and the thread is back in its loop
HttpRecv ==
    /\ http_pc = "recv"
    /\ \E restart \in BOOLEAN :
          g_restart_emulator_requested' = (restart \/ g_restart_emulator_requested)
    /\ http_pc' = "poll"
    /\ HttpFrame

\* the steps of video_loop
LoopSteps ==
    \/ LoopTop
    \/ SupervisorStep
    \/ LoopStopSteps
    \/ LoopStart
    \/ LoopAccept
    \/ LoopPeek
    \/ LoopCount

NextShutdown ==
    \/ MainStep
    \/ Signal
    \/ ChildExits
    \/ HttpAccept
    \/ HttpRecv
    \/ LoopSteps

\* main and video_loop run on one thread that is scheduled; signals, the
\* emulator and the clients of the HTTP server do what they do when they do
SpecShutdown ==
    /\ InitMain
    /\ [][NextShutdown]_vars
    /\ WF_vars(MainStep)
    /\ WF_vars(LoopSteps)

(***************************************************************************)
(* send_frame alone: one encoded frame is ready (video_loop stands at      *)
(* `if (!encoded.empty())`) and the session table holds sessions in the    *)
(* states that connect, answer and the track callbacks leave them in.      *)
(* Tracks open and close while the fan-out runs.                           *)
(***************************************************************************)
\* a session after connect; after the answer; with its track open and the
\* onOpen callback run, or not yet run; with its track closed and the
\* onClosed callback not yet run
PeerShapes ==
    { [NewPeer EXCEPT !.via = 1],
      [NewPeer EXCEPT !.via = 1, !.has_remote_description = TRUE],
      [NewPeer EXCEPT !.via = 1, !.has_remote_description = TRUE,
                      !.track = "open", !.reported = "open", !.ready = TRUE],
      [NewPeer EXCEPT !.via = 1, !.has_remote_description = TRUE,
                      !.track = "open"],
      [NewPeer EXCEPT !.via = 1, !.has_remote_description = TRUE,
                      !.track = "closed", !.reported = "open", !.ready = TRUE] }

InitFanout ==
    /\ InitShm /\ InitConn /\ InitProc /\ InitFan /\ InitHist /\ InitRtpCounters
    /\ ~g_auto_start_emulator
    /\ loop_pc = "send"
    /\ last_frame_count = 0
    /\ exit_code = 0
    /\ idx = NoSlot
    /\ encoded \in EncodedFrames \ { << >> }
    /\ peers_mutex_ = "free"
    /\ \E ids \in (SUBSET PeerIds) \ { {} } :
          /\ peers_ \in [ids -> PeerShapes]
          /\ ws_to_peer_id_ = [ws \in {1} |-> Lowest(ids)]
          /\ peer_count_ = Cardinality(ids)
    /\ ws_open = {1}

NextFanout == FanoutStep \/ TrackStepAny

SpecFanout == InitFanout /\ [][NextFanout]_vars

(***************************************************************************)
(* The whole tick of video_loop, fairly scheduled, from a cold start with  *)
(* one browser connected: an emulator may connect and publish frames, the  *)
(* browser's track opens and closes.  The loop sleeps at most 100 ms per   *)
(* iteration, so its next statement is always eventually executed.         *)
(***************************************************************************)
InitTick ==
    /\ InitShm /\ InitConn /\ InitProc /\ InitLoop /\ InitFan /\ InitHist /\ InitRtpCounters
    /\ ~g_auto_start_emulator
    /\ peers_mutex_ = "free"
    /\ peers_ \in [{1} -> PeerShapes]
    /\ ws_to_peer_id_ = [ws \in {1} |-> 1]
    /\ peer_count_ = 1
    /\ ws_open = {1}

LoopTickStep ==
    \/ LoopFrameStep
    \/ LoopReadStep
    \/ FanoutStep

NextTick ==
    \/ EmulatorConnects
    \/ WriterStep
    \/ TrackStepAny
    \/ LoopTickStep

SpecTick == InitTick /\ [][NextTick]_vars /\ WF_vars(LoopTickStep)

(***************************************************************************)
(* Properties of the shared-memory reader (SpecVideo).                     *)
(***************************************************************************)
\* C1: the slot video_loop took from write_index is never the slot the
\* writer is writing while video_loop is still encoding from it
C1_SlotNotWrittenWhileEncoded ==
    ~(loop_pc = "encoding" /\ writer_pc = "writing" /\ writer_next = idx)

C3_FramePacketsCohere ==
    (builds > 0 /\ encoded # << >>) =>
        /\ Len(packets) >= 1
        /\ \A i \in 1..(Len(packets) - 1) :
              PktSeq(packets[i + 1]) = (PktSeq(packets[i]) + 1) % 65536
        /\ \A i \in 1..Len(packets) :
              /\ PktTimestamp(packets[i]) = PktTimestamp(packets[1])
              /\ PktSsrc(packets[i]) = PktSsrc(packets[1])
              /\ PktMarker(packets[i]) <=> (i = Len(packets))

\* a frame of three packets whose sequence numbers pass from 65535 to 0
C3_Witness ==
    /\ builds > 0
    /\ Len(packets) = 3
    /\ PktSeq(packets[1]) = 65535
    /\ PktSeq(packets[2]) = 0

\* C4: the start-of-partition bit (0x10) of the payload descriptor is set
\* on the first packet of a frame and clear on every later one
C4_StartBitOnFirstOnly ==
    builds > 0 =>
        \A i \in 1..Len(packets) : PktStartBit(packets[i]) <=> (i = 1)

\* the second frame packetized, in several packets
C4_Witness ==
    /\ builds = 2
    /\ Len(packets) >= 2
    /\ PktStartBit(packets[1])

\* C6: a packet is at most 1200 bytes long, its payload is not empty and
\* at most 1187 bytes; 1187 bytes make one packet, 1188 bytes make two,
\* the second with a payload
C6_PacketSizes ==
    builds > 0 =>
        /\ \A i \in 1..Len(packets) :
              /\ Len(packets[i]) <= 1200
              /\ Len(PktPayload(packets[i])) >= 1
              /\ Len(PktPayload(packets[i])) <= 1187
        /\ Len(encoded) = 1187 => Len(packets) = 1
        /\ Len(encoded) = 1188 =>
              /\ Len(packets) = 2
              /\ Len(PktPayload(packets[2])) >= 1

\* a frame of 1188 bytes was packetized
C6_Witness ==
    /\ builds > 0
    /\ Len(encoded) = 1188
    /\ Len(packets) = 2
    /\ Len(packets[1]) = 1200

\* C7: seq_num_ advances by one per packet built and wraps from 65535 to
\* 0: the packets of a frame number on from the counter's value before the
\* frame, the counter ends one past the last packet, and a frame's first
\* packet follows the last packet built before it
C7_SequenceCounter ==
    /\ seq_num_ \in 0..65535
    /\ builds > 0 =>
          /\ seq_num_ = (last_first_seq + last_npackets) % 65536
          /\ last_npackets = Len(packets)
          /\ \A i \in 1..Len(packets) :
                PktSeq(packets[i]) = (last_first_seq + i - 1) % 65536
          /\ (last_npackets > 0 /\ prev_last_seq >= 0) =>
                PktSeq(packets[1]) = (prev_last_seq + 1) % 65536

\* the first frame ended on sequence number 65535, the second starts at 0
C7_Witness ==
    /\ builds = 2
    /\ prev_last_seq = 65535
    /\ last_npackets > 0
    /\ PktSeq(packets[1]) = 0
    /\ seq_num_ = last_npackets

(***************************************************************************)
(* Properties of the timestamp (SpecStamp).                                *)
(***************************************************************************)
\* C5: of two frames packetized one after the other the second carries
\* the timestamp of the first plus 3000 modulo 2^32, whatever happened
\* between them
C5_TimestampStep ==
    /\ (loop_pc = "fanout" /\ packets # << >>) =>
          PktTimestamp(packets[1]) = last_ts
    /\ builds >= 2 =>
          LET lo == prev_ts[2] + 3000
              carry == IF lo >= 65536 THEN 1 ELSE 0
          IN  last_ts = << (prev_ts[1] + carry) % 65536, lo % 65536 >>

\* two frames packetized with an emulator restart between them, the
\* timestamp passing 2^32
C5_Witness ==
    /\ builds >= 2
    /\ between = [kind |-> "restarted", closed |-> TRUE]
    /\ last_ts[1] < prev_ts[1]

(***************************************************************************)
(* Properties of the fan-out (SpecSend).                                   *)
(***************************************************************************)
\* C8: every packet send_frame sends goes to a peer whose track has
\* reported open and has not reported closed (a step of the inner packet
\* loop is a send to fan_peer)
C8_SendsOnlyToOpenTracks ==
    [][(loop_pc = "sending" /\ fan_k' # fan_k) =>
          (peers_[fan_peer].ready /\ peers_[fan_peer].reported = "open")]_vars

C10_EveryMessageQueuedOrApplied ==
    last_cand.kind # "none" =>
        /\ last_cand.outcome = "queued" <=> ~last_cand.had_remote
        /\ last_cand.outcome = "applied" <=> last_cand.had_remote

\* C10: a candidate message whose candidate string is not empty is queued
\* exactly when the session has no remote description and applied when it
\* has one; a session with a remote description has an empty queue
C10_CandidateQueuedOrApplied ==
    /\ last_cand.kind = "candidate" =>
          /\ last_cand.outcome = "queued" <=> ~last_cand.had_remote
          /\ last_cand.outcome = "applied" <=> last_cand.had_remote
    /\ \A id \in DOMAIN peers_ :
          peers_[id].has_remote_description => peers_[id].pending_candidates = << >>

\* a session queued one candidate, got its answer, and applied the next
\* candidate on arrival
C10_Witness ==
    \E id \in DOMAIN peers_ :
        /\ DOMAIN peers_ = {id}
        /\ peers_[id].has_remote_description
        /\ Len(peers_[id].applied) = 2
        /\ last_cand = [kind |-> "candidate", had_remote |-> TRUE, outcome |-> "applied"]

(***************************************************************************)
(* Properties of the session table (SpecSession, SpecSignal).              *)
(***************************************************************************)
\* C11: a session whose peer connection has reported Failed or Closed is
\* not in the session table
C11_FailedOrClosedSessionRemoved ==
    \A id \in DOMAIN peers_ : peers_[id].pc_state \notin { "Failed", "Closed" }

\* C12: a WebSocket owns at most one session of the table, and the table
\* holds no session made over a WebSocket that is closed
C12_OneSessionPerWebSocket ==
    /\ \A id1, id2 \in DOMAIN peers_ :
          peers_[id1].via = peers_[id2].via => id1 = id2
    /\ \A id \in DOMAIN peers_ : peers_[id].via \in ws_open

(***************************************************************************)
(* Properties of the fan-out of one frame (SpecFanout).                    *)
(***************************************************************************)
\* the fan-out has examined its last peer and send_frame is about to return
FanoutEnded == loop_pc = "fanout" /\ fan_todo = {} /\ packets # << >>

\* the packet numbers of a sequence of send calls
CallNumbers(calls) == [i \in 1..Len(calls) |-> calls[i].k]

PacketNumbers == [i \in 1..Len(packets) |-> i]

\* C13: when send_frame returns, every session of the table was examined,
\* and every session that was ready with an open track had send called
\* for every packet of the frame, in order, whatever sends threw before
C13_ThrowDoesNotAbortFanout ==
    FanoutEnded =>
        /\ DOMAIN sends = DOMAIN peers_
        /\ \A id \in DOMAIN sends :
              sends[id].passed => CallNumbers(sends[id].calls) = PacketNumbers

\* a send to one session threw, and a session examined after it got every
\* packet of the frame
C13_Witness ==
    /\ FanoutEnded
    /\ \E a, b \in DOMAIN sends :
          /\ a < b
          /\ \E i \in 1..Len(sends[a].calls) : ~sends[a].calls[i].ok
          /\ sends[b].passed
          /\ CallNumbers(sends[b].calls) = PacketNumbers
          /\ \A i \in 1..Len(sends[b].calls) : sends[b].calls[i].ok

\* the calls of a sequence of send calls that did not throw
Delivered(calls) == SelectSeq(calls, LAMBDA c : c.ok)

\* C14: when send_frame returns, each session was sent either every packet
\* of the frame in order, or none
C14_AllPacketsOrNone ==
    FanoutEnded =>
        \A id \in DOMAIN sends :
            \/ Delivered(sends[id].calls) = << >>
            \/ CallNumbers(Delivered(sends[id].calls)) = PacketNumbers

(***************************************************************************)
(* Properties of the supervision of the emulator process (SpecSupervisor). *)
(***************************************************************************)
\* the exit-code check of video_loop runs: the step from the check's result
\* to the restart-request test
ExitCodeChecked == loop_pc = "auto_restart" /\ loop_pc' = "restart_req"

Status75 == [kind |-> "exited", code |-> RESTART_EXIT_CODE]

\* C15: whenever check_emulator_status has returned 75, the same supervisor
\* check calls start_emulator, with auto-start enabled or disabled
C15_ExitCode75Respawns ==
    [][(ExitCodeChecked /\ exit_code = RESTART_EXIT_CODE) => respawn'.called]_vars

\* C16: the exit-code check calls start_emulator only for exit status 75,
\* and a child forked by the supervisor check replaces only a child that
\* exited with status 75
C16_OnlyStatus75Respawned ==
    /\ [][(ExitCodeChecked /\ exit_code # RESTART_EXIT_CODE) =>
             (~respawn'.called /\ UNCHANGED << g_emulator_pid, child >>)]_vars
    /\ [](respawn.forked => respawn.replaced = Status75)

\* check_emulator_status runs in video_loop and waitpid reports that the
\* child has terminated
TerminationObserved ==
    /\ loop_pc = "emu_check" /\ loop_pc' = "auto_restart"
    /\ g_emulator_pid > 0 /\ child.state = "zombie"

\* C17: when check_emulator_status has observed the child's termination,
\* the pid is -1, the control connection is closed, g_emulator_connected is
\* false and the listening socket is still open
C17_TerminationTearsDownConnection ==
    [][TerminationObserved =>
          /\ g_emulator_pid' = -1
          /\ child' = NoChild
          /\ g_control_socket' = -1
          /\ ~g_emulator_connected'
          /\ g_listen_socket' /\ g_listen_socket]_vars

\* the check has just reaped a child that exited with status 1: no pid, no
\* control connection, the listening socket open
C17_Witness ==
    /\ loop_pc = "auto_restart"
    /\ exit_code = 1
    /\ g_emulator_pid = -1
    /\ g_control_socket = -1
    /\ ~g_emulator_connected
    /\ g_listen_socket

\* stop_emulator, called by thread t, returns
StopReturned(t) == stop_pc[t] # "idle" /\ stop_pc'[t] = "idle"

\* C18: a call of stop_emulator sends SIGTERM first, polls at most 30
\* times, sends SIGKILL only after 30 polls that found the child running,
\* and every return leaves g_emulator_pid = -1
C18_StopEscalatesAfter30Polls ==
    /\ [](\A t \in StopThreads :
             /\ stop_pc[t] # "idle" => (sigs[t] # << >> /\ Head(sigs[t]) = "TERM")
             /\ sigs[t] \in { << >>, << "TERM" >>, << "TERM", "KILL" >> }
             /\ polls[t] <= STOP_POLLS
             /\ Len(sigs[t]) = 2 => polls[t] = STOP_POLLS
             /\ stop_pc[t] = "wait" <=> Len(sigs[t]) = 2)
    /\ [][/\ \A t \in StopThreads : StopReturned(t) => g_emulator_pid' = -1
          /\ (loop_pc = "stop" /\ loop_pc' = "start") => g_emulator_pid' = -1]_vars

\* a call polled 30 times, the child still running, and sent SIGKILL
C18_Witness ==
    \E t \in StopThreads :
        /\ stop_pc[t] = "wait"
        /\ polls[t] = STOP_POLLS
        /\ sigs[t] = << "TERM", "KILL" >>
        /\ child = [state |-> "zombie", kind |-> "signaled", code |-> 0]

\* the restart-request test of video_loop runs
RequestTested == loop_pc = "restart_req" /\ loop_pc' # loop_pc

\* C19: a request sets the flag, whatever it was, and only the
\* restart-request test of video_loop clears it; a test that finds it set
\* clears it and calls stop_emulator, which returns with no child, before
\* start_emulator; a test that finds it clear restarts nothing
C19_RestartRequestHonored ==
    [][/\ (g_restart_emulator_requested /\ ~g_restart_emulator_requested')
             => RequestTested
       /\ (RequestTested /\ g_restart_emulator_requested)
             => /\ ~g_restart_emulator_requested'
                /\ loop_pc' = "stop"
       /\ (RequestTested /\ ~g_restart_emulator_requested)
             => loop_pc' = "accept"
       /\ RequestTested => UNCHANGED << g_emulator_pid, child >>
       /\ (loop_pc = "stop" /\ loop_pc' # loop_pc)
             => /\ loop_pc' = "start"
                /\ g_emulator_pid' = -1
                /\ child' = NoChild
       /\ (loop_pc' = "start" /\ loop_pc # loop_pc')
             => loop_pc = "stop"
       /\ (loop_pc' = "stop" /\ loop_pc # loop_pc')
             => (RequestTested /\ g_restart_emulator_requested)]_vars

\* the restart of a request is under way: the flag is cleared, the child
\* has been stopped and start_emulator comes next; a request made in the
\* meantime is pending for the next check
C19_Witness ==
    /\ loop_pc = "start"
    /\ g_restart_emulator_requested
    /\ g_emulator_pid = -1
    /\ child = NoChild

\* a step of an emulator operation: the child or its pid changes, or the
\* supervisor check or the restart of video_loop moves on
EmulatorOperation ==
    \/ g_emulator_pid' # g_emulator_pid
    \/ child' # child
    \/ loop_pc \in { "emu_check", "auto_restart", "stop", "start" } /\ loop_pc' # loop_pc

\* C20: no step of an emulator stop, start, exit or restart changes the
\* session table, the WebSocket map or the session count
C20_SessionsSurviveEmulatorOps ==
    [][EmulatorOperation => UNCHANGED << peers_, ws_to_peer_id_, peer_count_ >>]_vars

\* a restart has stopped the child and is about to start the new one, and
\* the table is full
C20_Witness ==
    /\ loop_pc = "start"
    /\ g_emulator_pid = -1
    /\ child = NoChild
    /\ Cardinality(DOMAIN peers_) = MaxPeers
    /\ peer_count_ = MaxPeers

(***************************************************************************)
(* Properties of the packetizer's counters across events (SpecStamp).      *)
(***************************************************************************)
\* send_frame packetizes a frame
FramePacketized == loop_pc = "send" /\ loop_pc' = "fanout" /\ builds' = builds + 1

\* C21: seq_num_ and timestamp_ change only when a frame is packetized;
\* when a session was created or removed, or the emulator restarted,
\* between two frames, the second frame starts on the sequence number
\* after the first frame's last
C21_CountersChangeOnlyByPacketizing ==
    /\ [][(seq_num_' # seq_num_ \/ timestamp_' # timestamp_) => FramePacketized]_vars
    /\ []((builds >= 2 /\ between.kind # "none" /\ between.closed /\ last_npackets > 0)
            => last_first_seq = (prev_last_seq + 1) % TwoPow16)

\* two frames packetized with a session removed between them
C21_Witness ==
    /\ builds = 2
    /\ between = [kind |-> "left", closed |-> TRUE]
    /\ prev_last_seq >= 0
    /\ last_first_seq = prev_last_seq + 1
    /\ seq_num_ = last_first_seq + last_npackets

(***************************************************************************)
(* Properties of the control connection (SpecControl).                     *)
(***************************************************************************)
\* C22: the first line written on a control connection is the hello line
C22_HelloIsFirstLine == first_line \in { "none", "hello" }

\* a call of send_to_emulator has just written less than its line
SendFell == send_result' # send_result /\ send_result' \in { "short", "failed" }

\* C23: a send on the control connection that fails or falls short leaves
\* the connection closed and g_emulator_connected false
C23_FailedSendMarksDead ==
    [][SendFell => (g_control_socket' = -1 /\ ~g_emulator_connected')]_vars

\* video_loop's peek has just run on a connection the emulator had closed
ClosureSeen ==
    /\ loop_pc = "peek" /\ loop_pc' = "count"
    /\ g_emulator_connected /\ g_control_socket >= 0 /\ conn_peer = "closed"

\* a connection has just been taken from the listen queue
Accepted == backlog' < backlog

ShutdownOrder == << "signaling", "http", "emulator", "shm", "socket_path" >>

\* C25: after video_loop has stopped, signaling is stopped, then the HTTP
\* server, then the emulator, then the shared memory is released, then the
\* socket path is removed
C25_ShutdownOrder ==
    /\ Len(done) <= Len(ShutdownOrder)
    /\ done = SubSeq(ShutdownOrder, 1, Len(done))

\* C26: whenever main has returned, the shared-memory name is unlinked and
\* the socket path it bound is removed
C26_ReturnLeavesNothing ==
    main_pc = "returned" => (shm_name = "absent" /\ sock_path # "bound" /\ ~g_listen_socket)

\* main returned after a signal, having run the shutdown
C26_Witness == main_pc = "returned" /\ Len(done) = 5 /\ ~g_running

\* the threads that are inside stop_emulator, which reads and writes
\* g_emulator_pid in every statement
PidUsers == { t \in StopThreads : stop_pc[t] # "idle" }

\* C27: the emulator pid is accessed by one thread only: no two threads are
\* ever inside the code that reads and writes it
C27_PidHasOneThread == Cardinality(PidUsers) <= 1

\* C28: a session whose track has reported an error is not ready
C28_TrackErrorClearsReady ==
    \A id \in DOMAIN peers_ : peers_[id].reported = "error" => ~peers_[id].ready

(***************************************************************************)
(* Properties of the encoders (SpecEncoders).                              *)
(***************************************************************************)
\* an encode call has just emitted a frame (a request leaves `requested` set)
FrameEmitted ==
    encoder' # encoder /\ encoder'.out \in { "key", "delta" } /\ ~encoder'.requested

\* C29: the frame an encode call emits while a keyframe request is
\* outstanding is a keyframe and the request is consumed; the first frame
\* an encoder emits after init is a keyframe
C29_RequestedKeyframeIsNext ==
    [][FrameEmitted
          => /\ encoder.requested => encoder'.out = "key" 
             /\ ~encoder.codec_ => encoder'.out = "key"]_vars

\* C30: in a run where no emulator ever connects and one browser stays
\* connected, video_loop eventually emits a stats line showing one peer
C30_StatsWithoutEmulator ==
    ([]~g_emulator_connected /\ <>[](peer_count_ = 1))
        => <>(loop_pc = "stats" /\ peer_count_ = 1)

(***************************************************************************)
(* Properties of the audio ring helpers (SpecAudio).                       *)
(***************************************************************************)
\* the number of bytes from read_pos forward to write_pos around the ring
BytesAhead(buf) ==
    IF buf.write_pos >= buf.read_pos
    THEN buf.write_pos - buf.read_pos
    ELSE buf.buffer_size - (buf.read_pos - buf.write_pos)

\* C31: macemu_audio_available is (write_pos - read_pos) mod capacity: 0 for
\* equal positions, capacity - 1 when write_pos is one behind read_pos; and
\* available + free = capacity - 1
C31_AudioAvailableAndFree ==
    audio.available # -1 =>
        /\ audio.available = BytesAhead(audio)
        /\ audio.available \in 0..(audio.buffer_size - 1)
        /\ (audio.write_pos = audio.read_pos => audio.available = 0)
        /\ ((audio.write_pos + 1) % audio.buffer_size = audio.read_pos
               => audio.available = audio.buffer_size - 1)
        /\ audio.available + audio.free = audio.buffer_size - 1

\* the helpers were called with write_pos one behind read_pos across the
\* end of the ring: the subtraction wrapped
C31_Witness ==
    /\ audio.write_pos = MACEMU_AUDIO_BUFFER_SIZE - 1
    /\ audio.read_pos = 0
    /\ audio.available = MACEMU_AUDIO_BUFFER_SIZE - 1
    /\ audio.free = 0

\* an encode call has just returned
EncodeReturned == encoder'.call # encoder.call

\* C32: encode calls init exactly when there is no codec or the frame's
\* width or height differs from the encoder's; a call with a codec and the
\* same geometry does not initialise and restarts nothing; after a call
\* that emitted a frame the encoder's geometry is the frame's
C32_ReinitOnGeometryChange ==
    [][EncodeReturned =>
          /\ encoder'.reinit = (~encoder.codec_ \/ encoder'.frame # encoder.geometry)
          /\ (encoder.codec_ /\ encoder'.frame = encoder.geometry)
                => /\ encoder'.codec_
                   /\ encoder'.geometry = encoder.geometry
                   /\ encoder'.since_key >= encoder.since_key \/ encoder'.out = "key"
          /\ encoder'.out \in { "key", "delta" }
                => (encoder'.codec_ /\ encoder'.geometry = encoder'.frame)
          /\ (encoder'.reinit /\ encoder'.out \in { "key", "delta" })
                => encoder'.out = "key"]_vars

\* a call on an encoder that had encoded frames of another geometry has
\* initialised the codec again and emitted a keyframe of the new geometry
C32_Witness ==
    /\ encoder.kind = "VP8"
    /\ encoder.reinit
    /\ encoder.call = 0
    /\ encoder.out = "key"
    /\ encoder.geometry = << 640, 480 >>
    /\ encoder.frame = << 640, 480 >>

\* the supervisor check has just called check_emulator_status
StatusChecked == loop_pc = "emu_check" /\ loop_pc' = "auto_restart"

\* C33: check_emulator_status returns 0 only for a child that still runs,
\* -1 without a child and for a child killed by a signal, and the positive
\* exit code for a child that exited
C33_StatusValueTellsRunning ==
    [][StatusChecked =>
          /\ exit_code' = 0 <=> (g_emulator_pid > 0 /\ child.state = "running")
          /\ g_emulator_pid <= 0 => exit_code' = -1
          /\ (g_emulator_pid > 0 /\ child.state = "zombie" /\ child.kind = "signaled")
                => exit_code' = -1
          /\ (g_emulator_pid > 0 /\ child.state = "zombie" /\ child.kind = "exited")
                => (exit_code' > 0 /\ exit_code' = child.code)]_vars
(***************************************************************************)
(* Properties of the emulator child across both threads (SpecChildren).    *)
(***************************************************************************)
\* C34: at most one emulator child process exists at any time, also while
\* the HTTP thread starts or stops the emulator during a restart that
\* video_loop performs
C34_AtMostOneChild == Children <= 1
\* thread t's stop_emulator makes one of its calls on g_emulator_pid after
\* the first: a waitpid of the poll loop, the SIGKILL or the final waitpid
StopCallsOnPid(t) ==
    /\ stop_pc[t] \in { "poll", "wait" }
    /\ stop_pc'[t] # stop_pc[t] \/ polls'[t] # polls[t]

\* C35: stop_emulator never signals or waits on a pid that is not a positive
\* child pid, also when check_emulator_status in the other thread reaps the
\* child and sets the pid to -1 while stop_emulator polls
C35_StopTargetsPositivePid ==
    [][\A t \in StopThreads : StopCallsOnPid(t) => g_emulator_pid > 0]_vars
(***************************************************************************)
(* Properties of the session counter (SpecMain).                           *)
(***************************************************************************)
\* C37: after any sequence of connect messages, WebSocket closes and
\* shutdown, peer_count_ is the number of sessions in peers_
C37_PeerCountIsTableSize == peer_count_ = Cardinality(DOMAIN peers_)
(***************************************************************************)
(* Properties of the control connection's two globals (SpecSupervisor).    *)
(***************************************************************************)
\* video_loop is between two ticks
TickEnded == loop_pc = "top"

\* C38: at the end of every tick of video_loop, g_emulator_connected is true
\* exactly when g_control_socket holds a descriptor, whatever accepts, peer
\* closures and child exits came before
C38_ConnectedIffSocket ==
    TickEnded => (g_emulator_connected <=> g_control_socket >= 0)

\* a tick ends with the emulator connected and its closure not yet seen
C38_Witness ==
    /\ TickEnded
    /\ g_emulator_connected
    /\ g_control_socket = AcceptedFd
    /\ conn_peer = "closed"
(***************************************************************************)
(* The payloads of a frame's packets, read back (SpecRtp).                 *)
(***************************************************************************)
\* the payloads of packets i.. of pkts, one after the other
RECURSIVE PayloadsFrom(_, _)
PayloadsFrom(pkts, i) ==
    IF i > Len(pkts) THEN << >>
    ELSE PktPayload(pkts[i]) \o PayloadsFrom(pkts, i + 1)

\* C39: the payloads of the packets built for a frame (the bytes after the
\* 12-byte header and the 1-byte descriptor), concatenated in order, are the
\* bytes of the frame: none lost, duplicated or reordered
C39_PayloadsAreTheFrame ==
    builds > 0 => PayloadsFrom(packets, 1) = encoded

\* a frame of 2375 bytes was packetized into three packets
C39_Witness ==
    /\ builds > 0
    /\ Len(encoded) = 2 * (MTU - RTP_HEADER_LEN - 1) + 1
    /\ Len(packets) = 3
    /\ Len(PktPayload(packets[3])) = 1
(***************************************************************************)
(* Termination after a signal (SpecShutdown).                              *)
(***************************************************************************)
\* C40: once a signal has cleared the running flag, video_loop exits,
\* wherever it was (also inside a restart of the emulator), and main stops
\* the emulator and reaches the end of its shutdown
C40_SignalLeadsToReturn == (~g_running) ~> (main_pc = "returned")

====
